---- MODULE Spec2Model ----
(***************************************************************************)
(* A model of go-SponsorBlockTV's per-device session engine:               *)
(*   - APIHelper.processSegments (internal/pkg/api/api_helpers.go), the    *)
(*     segment merge, as operators computed the way the Go code computes   *)
(*     them, exercised by the specification SpecMerge;                     *)
(*   - DeviceListener (cmd/iSponsorBlockTV/main.go) and YtLoungeApi        *)
(*     (internal/pkg/ytlounge), the subscribe / watchdog / skip goroutines *)
(*     of one device, exercised by the specification SpecSession.          *)
(* Times are integers counted in units of 1/Second of a second.            *)
(***************************************************************************)
EXTENDS Integers, Sequences, FiniteSets, TLC

VARIABLES
    \* ---- processSegments harness (SpecMerge)
    data,          \* the decoded JSON object handed to processSegments
    mpc,           \* "input" | "merged" | "remerged" ("off" under SpecSession)
    segments,      \* the []Segment processSegments returned
    ignoreTTL,     \* the bool processSegments returned
    again,         \* the []Segment returned when the result is fed back in
    \* ---- one device's session (SpecSession)
    mainPc,        \* main(): "run" | "ctxCancelled" | "devCancelled" | "exited"
    ctxDone,       \* main's ctx has been cancelled
    cancelled,     \* DeviceListener.cancelled
    loop,          \* the Loop goroutine: [pc, wake]
    subs,          \* number of SubscribeMonitored calls so far
    subscribeTask, \* YtLoungeApi.subscribeTask: 0 (nil) or the call whose subCancel it is
    watchdogTask,  \* YtLoungeApi.watchdogTask: 0 (nil) or the call whose watchCancel it is
    subCtx,        \* per call, subCtx: "none" | "live" | who cancelled it first
    watchCtx,      \* per call, watchCtx: "none" | "live" | who cancelled it first
    stream,        \* per call, the subscribe goroutine: [pc, ev, pos]
    wd,            \* per call, the watchdog goroutine: [pc, due], due = time to the next tick
    skips,         \* number of HandlePlaybackStateChange calls so far
    task,          \* DeviceListener.task: 0 (nil) or the call that made it
    taskCtx,       \* per HandlePlaybackStateChange call, Task.ctx: "none" | "live" | "cancelled"
    sk,            \* per HandlePlaybackStateChange call, the processPlaybackState goroutine
    commands,      \* the commands SendCommand has posted to the device, in order
    viewed,        \* the uuid lists MarkViewedSegments was called with, in order
    panicked       \* a goroutine panicked: the process is gone

\* The remote commands of YtLoungeApi.
VARIABLES
    commandMutex,  \* YtLoungeApi.commandMutex: 0 (unlocked) or the call holding it
    cmd,           \* per command call, [pc, kind, mute, override]
    muted          \* YtLoungeApi.volumeState["muted"]: "nil" | "true" | "false"

mergeVars == <<data, mpc, segments, ignoreTTL, again>>

sessionVars ==
    <<mainPc, ctxDone, cancelled, loop, subs, subscribeTask, watchdogTask,
      subCtx, watchCtx, stream, wd, skips, task, taskCtx, sk, commands, viewed,
      panicked>>

commandVars == <<commandMutex, cmd, muted>>

\* One call of timeToSegment taken alone: its arguments and what it calls
\* skip with.
VARIABLES
    sched          \* [pc, segs, position, elapsed, offset, found, timeTo, target, uuids, sleep]

scheduleVars == <<sched>>

\* The LRU cache of package cache (Cache: items, lruList) and the calls made
\* on it.
VARIABLES
    items,         \* Cache.items: per key, 0 (no mapping) or the list element it maps to
    lruList,       \* Cache.lruList: the elements in the list, front first
    entry,         \* per list element, its Value: the CacheEntry
    clock,         \* time.Now(), in ticks
    cachePanicked, \* a call on the cache panicked
    got,           \* the Get that is returning to its caller: its key and its result
    stored,        \* per key, what the last Set of it stored, until something removes it
    owner          \* per list element, the key Set made it for ("none": not in use)

cacheVars == <<items, lruList, entry, clock, cachePanicked, got, stored, owner>>

\* The sessions that call the cache at the same time.
VARIABLES
    mu,            \* Cache.mu: the callers holding the read lock
    call,          \* per caller, its call: [pc, key, found, value, n]
    raced          \* two callers wrote the list at once and it came out corrupted

sharedVars == <<mu, call, raced>>

\* The API helper and its calls of GetSegments.
VARIABLES
    helper,        \* the helper: its kind, its configuration, its whitelist and its cache
    lookups,       \* the channel lookups made (getChannelID)
    queries,       \* per video, the requests made to the segment provider
    resolved,      \* what the last GetSegments returned: [video, err, segments, ignoreTTL]
    fetched        \* the videos a GetSegments has returned without an error for

resolveVars == <<helper, lookups, queries, resolved, fetched>>

\* The ad and shorts policies of YtLoungeApi and what its event handlers start.
VARIABLES
    muteAds,            \* YtLoungeApi.muteAds
    skipAds,            \* YtLoungeApi.skipAds
    shortsDisconnected, \* YtLoungeApi.shortsDisconnected
    prefetched          \* the video ids a handler started a GetSegments goroutine for

handlerVars == <<muteAds, skipAds, shortsDisconnected, prefetched>>

vars ==
    <<mergeVars, sessionVars, commandVars, scheduleVars, cacheVars, sharedVars,
      resolveVars,
      handlerVars>>

\* What the actions of one part leave alone.
exceptSession == <<mergeVars, commandVars, scheduleVars, cacheVars, sharedVars, resolveVars, handlerVars>>
exceptMerge == <<sessionVars, commandVars, scheduleVars, cacheVars, sharedVars, resolveVars, handlerVars>>
exceptSchedule == <<mergeVars, sessionVars, commandVars, cacheVars, sharedVars, resolveVars, handlerVars>>
exceptCache == <<mergeVars, sessionVars, commandVars, scheduleVars, sharedVars, resolveVars, handlerVars>>
exceptShared == <<mergeVars, sessionVars, commandVars, scheduleVars, resolveVars, handlerVars>>
exceptResolve == <<mergeVars, sessionVars, commandVars, scheduleVars, cacheVars, sharedVars, handlerVars>>

\* Resolution of the time axis: units per second (2 = half seconds).
Second == 2
\* Start and end times of the raw records drawn by SpecMerge: one unit, one
\* second and two seconds apart, so that records overlap, touch, lie less
\* than a second apart, exactly a second apart and further apart.
Times == {0, 1, Second + 1, 2 * Second + 1}
\* Longest raw segment list drawn by SpecMerge.
MaxLen == 3

(***************************************************************************)
(* APIHelper.processSegments                                               *)
(***************************************************************************)

\* One element of typedSegments: Segment[0], Segment[1], UUID, Locked.
TypedSegment(st, en, id, lk) == [start |-> st, end |-> en, uuid |-> id, locked |-> lk]

\* sort.Slice(typedSegments, less): for fewer than 12 elements Go's sort is
\* an insertion sort, which moves an element left only past elements it is
\* strictly less than.  key is "start" or "end".
RECURSIVE InsertSorted(_, _, _)
InsertSorted(sorted, x, key) ==
    IF sorted = << >> THEN << x >>
    ELSE IF x[key] < sorted[Len(sorted)][key]
         THEN Append(InsertSorted(SubSeq(sorted, 1, Len(sorted) - 1), x, key),
                     sorted[Len(sorted)])
         ELSE Append(sorted, x)

RECURSIVE SortSlice(_, _)
SortSlice(t, key) ==
    IF t = << >> THEN << >>
    ELSE InsertSorted(SortSlice(SubSeq(t, 1, Len(t) - 1), key), t[Len(t)], key)

\* A mutant of ExtendEndAt: no end is ever extended.
ExtendEndAtNever(t, i, j) == t

\* The body of the end-extension loops for one (i, j).
ExtendEndAt(t, i, j) ==
    IF t[j].start <= t[i].end /\ t[i].end <= t[j].end
    THEN [t EXCEPT ![i].end = t[j].end]
    ELSE t

\* for i := range t { for j := range t { ... } }, in place.
RECURSIVE ExtendEndsFrom(_, _, _)
ExtendEndsFrom(t, i, j) ==
    IF i > Len(t) THEN t
    ELSE IF j > Len(t) THEN ExtendEndsFrom(t, i + 1, 1)
    ELSE ExtendEndsFrom(ExtendEndAt(t, i, j), i, j + 1)

ExtendEnds(t) == ExtendEndsFrom(t, 1, 1)

\* The body of the start-extension loops for one (i, j).
ExtendStartAt(t, i, j) ==
    IF t[j].start <= t[i].start /\ t[i].start <= t[j].end
    THEN [t EXCEPT ![i].start = t[j].start]
    ELSE t

\* for i := len-1; i >= 0; i-- { for j := len-1; j >= 0; j-- { ... } }.
RECURSIVE ExtendStartsFrom(_, _, _)
ExtendStartsFrom(t, i, j) ==
    IF i < 1 THEN t
    ELSE IF j < 1 THEN ExtendStartsFrom(t, i - 1, Len(t))
    ELSE ExtendStartsFrom(ExtendStartAt(t, i, j), i, j - 1)

ExtendStarts(t) == ExtendStartsFrom(t, Len(t), Len(t))

\* A mutant of CombineStep: combines only segments that touch or overlap.
CombineStepNoGap(segs, s) ==
    LET segment == [start |-> s.start, end |-> s.end, uuids |-> << s.uuid >>]
    IN  IF segs # << >> /\ segment.start - segs[Len(segs)].end < 0
        THEN Append(SubSeq(segs, 1, Len(segs) - 1),
                    [segment EXCEPT !.start = segs[Len(segs)].start,
                                    !.uuids = segment.uuids \o segs[Len(segs)].uuids])
        ELSE Append(segs, segment)

\* A mutant of CombineStep: the combined segment keeps only its own id.
CombineStepDropIds(segs, s) ==
    LET segment == [start |-> s.start, end |-> s.end, uuids |-> << s.uuid >>]
    IN  IF segs # << >> /\ segment.start - segs[Len(segs)].end < Second
        THEN Append(SubSeq(segs, 1, Len(segs) - 1),
                    [segment EXCEPT !.start = segs[Len(segs)].start])
        ELSE Append(segs, segment)

\* A mutant of CombineStep: the previous segment is not removed from the
\* result when the current one is combined with it.
CombineStepNoPop(segs, s) ==
    LET segment == [start |-> s.start, end |-> s.end, uuids |-> << s.uuid >>]
    IN  IF segs # << >> /\ segment.start - segs[Len(segs)].end < Second
        THEN Append(segs,
                    [segment EXCEPT !.start = segs[Len(segs)].start,
                                    !.uuids = segment.uuids \o segs[Len(segs)].uuids])
        ELSE Append(segs, segment)

\* A mutant of CombineStep: segments up to ten seconds apart are combined.
CombineStepWideGap(segs, s) ==
    LET segment == [start |-> s.start, end |-> s.end, uuids |-> << s.uuid >>]
    IN  IF segs # << >> /\ segment.start - segs[Len(segs)].end < 10 * Second
        THEN Append(SubSeq(segs, 1, Len(segs) - 1),
                    [segment EXCEPT !.start = segs[Len(segs)].start,
                                    !.uuids = segment.uuids \o segs[Len(segs)].uuids])
        ELSE Append(segs, segment)

\* One iteration of the "combine close segments" loop: s is the typed
\* segment, segs the result so far.
CombineStep(segs, s) ==
    LET segment == [start |-> s.start, end |-> s.end, uuids |-> << s.uuid >>]
    IN  IF segs # << >> /\ segment.start - segs[Len(segs)].end < Second
        THEN Append(SubSeq(segs, 1, Len(segs) - 1),
                    [segment EXCEPT !.start = segs[Len(segs)].start,
                                    !.uuids = segment.uuids \o segs[Len(segs)].uuids])
        ELSE Append(segs, segment)

RECURSIVE CombineClose(_, _, _)
CombineClose(t, k, segs) ==
    IF k > Len(t) THEN segs
    ELSE CombineClose(t, k + 1, CombineStep(segs, t[k]))

\* A mutant of AllLocked: the flag follows the last record only.
AllLockedLastOnly(t) == t = << >> \/ t[Len(t)].locked = 1

\* ignoreTTL = ignoreTTL && s.Locked == 1, over every typed segment.
AllLocked(t) == \A k \in 1 .. Len(t) : t[k].locked = 1

\* processSegments(data): d.hasSegments is the type assertion on
\* data["segments"], d.segments the decoded records.
ProcessSegments(d) ==
    IF ~d.hasSegments
    THEN [segments |-> << >>, ignoreTTL |-> TRUE]
    ELSE LET t == ExtendStarts(SortSlice(ExtendEnds(SortSlice(d.segments, "end")),
                                         "start"))
         IN  [segments |-> CombineClose(t, 1, << >>), ignoreTTL |-> AllLocked(t)]

(***************************************************************************)
(* DeviceListener.timeToSegment                                            *)
(***************************************************************************)

\* A mutant of IsWithinStartRange: no segment is taken as already active.
IsWithinStartRangeNever(segment, position) == FALSE

\* A mutant of IsWithinStartRange: a segment that holds the position counts
\* as already active wherever the position is.
IsWithinStartRangeAnywhere(segment, position) ==
    /\ segment.start <= position
    /\ position < segment.end

IsWithinStartRange(segment, position) ==
    /\ position < Second
    /\ segment.end > Second
    /\ segment.start <= position
    /\ position < segment.end

\* A mutant of IsBeyondCurrentPosition: a segment starting at the position
\* counts as beyond it.
IsBeyondOrAtCurrentPosition(segment, position) == segment.start >= position

IsBeyondCurrentPosition(segment, position) == segment.start > position

\* The index of the segment the loop breaks on, 0 when it runs to the end.
RECURSIVE NextSegmentFrom(_, _, _)
NextSegmentFrom(segs, k, position) ==
    IF k > Len(segs) THEN 0
    ELSE IF IsWithinStartRange(segs[k], position) \/ IsBeyondCurrentPosition(segs[k], position)
         THEN k
         ELSE NextSegmentFrom(segs, k + 1, position)

\* A mutant of TimeToSegment: the time elapsed since the sample is left out
\* of the delay.
TimeToSegmentNoElapsed(segs, position, elapsed, offset) ==
    LET k == NextSegmentFrom(segs, 1, position)
    IN  IF k = 0
        THEN [found |-> FALSE, timeTo |-> 0, position |-> 0, uuids |-> << >>]
        ELSE LET startNextSegment ==
                     IF IsWithinStartRange(segs[k], position) THEN position
                     ELSE segs[k].start
             IN  [found |-> TRUE,
                  timeTo |-> (startNextSegment - position) - offset,
                  position |-> segs[k].end,
                  uuids |-> segs[k].uuids]

\* timeToSegment(segments, position, startTime) with elapsed = time.Since(startTime):
\* the arguments it calls skip with, found = FALSE when it does not call skip.
TimeToSegment(segs, position, elapsed, offset) ==
    LET k == NextSegmentFrom(segs, 1, position)
    IN  IF k = 0
        THEN [found |-> FALSE, timeTo |-> 0, position |-> 0, uuids |-> << >>]
        ELSE LET startNextSegment ==
                     IF IsWithinStartRange(segs[k], position) THEN position
                     ELSE segs[k].start
             IN  [found |-> TRUE,
                  timeTo |-> (startNextSegment - position - elapsed) - offset,
                  position |-> segs[k].end,
                  uuids |-> segs[k].uuids]

(***************************************************************************)
(* One device's session: main, Loop, SubscribeMonitored, the watchdog and  *)
(* subscribe goroutines, ProcessEvent, and the skip goroutines.            *)
(* Timers are kept as the time left until they are due; the clock          *)
(* advances in steps of TickSeconds seconds.                               *)
(***************************************************************************)

\* SubscribeMonitored calls modelled.
MaxSubs == 3
\* HandlePlaybackStateChange calls modelled.
MaxSkips == 2
\* Seconds the clock advances in one step.
TickSeconds == 5

\* time.NewTicker(35 * time.Second) and time.After(10 * time.Second).
WatchdogSeconds == 35
BackoffSeconds == 10

Calls == 1 .. MaxSubs
SkipCalls == 1 .. MaxSkips

Step == TickSeconds * Second
Window == WatchdogSeconds * Second
Backoff == BackoffSeconds * Second

Max(a, b) == IF a >= b THEN a ELSE b
Min(a, b) == IF a <= b THEN a ELSE b

\* Device.Offset of the configured device.
DeviceOffset == 0 * Second

\* What the segment provider holds for the video being played, and the
\* positions the device reports.
VideoRaw ==
    << TypedSegment(5 * Second,  10 * Second, 1, 1),
       TypedSegment(9 * Second,  15 * Second, 2, 0),
       TypedSegment(20 * Second, 25 * Second, 3, 1) >>

VideoSegments == ProcessSegments([hasSegments |-> TRUE, segments |-> VideoRaw]).segments

Positions == {0, 15 * Second}

\* time.Since(startTime) is kept up to the longest delay timeToSegment can
\* compute from Positions and VideoSegments: from there on every delay is <= 0.
MaxElapsed == 5 * Second

\* Names of inbound events; loungeStatusBlacklisted is a loungeStatus whose
\* devices list a LOUNGE_SCREEN with a clientName of YouTubeClientBlacklist.
EventNames == {"onStateChange", "loungeStatus", "loungeStatusBlacklisted"}

\* onStateChange events by the "state" they report: "1" (playing), "3"
\* (buffering), and any other state under the plain name.
StateChanges == {"onStateChange", "onStateChangePlaying", "onStateChangeBuffering"}

\* The events the ad, volume and shorts cases of the handlers tell apart, one
\* name per payload: nowPlaying with a video id (and state "1" or not),
\* onAdStateChange with adState "0", or with an ad running and isSkipEnabled
\* "true" or not, onVolumeChanged with muted "true" or "false",
\* onSubtitlesTrackChanged with a video id, loungeScreenDisconnected with the
\* reason disconnectedByUserScreenInitiated or another one.
HandlerEvents ==
    {"onStateChangePlaying", "onStateChangeBuffering", "nowPlaying", "nowPlayingPlaying",
     "onAdStateChangeEnded", "onAdStateChangeSkippable", "onAdStateChangeUnskippable",
     "onVolumeChangedMuted", "onVolumeChangedUnmuted", "onSubtitlesTrackChanged",
     "loungeScreenDisconnectedByUser", "loungeScreenDisconnectedOther"}

NoStream == [pc |-> "none", ev |-> "none", pos |-> 0]
NoWatchdog == [pc |-> "none", due |-> 0]
NoSkip ==
    [pc |-> "none", pos |-> 0, elapsed |-> 0, sleep |-> 0, position |-> 0, uuids |-> << >>,
     failed |-> FALSE]

\* What GetSegments hands to processPlaybackState: the video's segments, an
\* empty list, or nil with an error.
FetchResults ==
    {[segments |-> VideoSegments, failed |-> FALSE],
     [segments |-> << >>, failed |-> FALSE],
     [segments |-> << >>, failed |-> TRUE]}

\* The process is running: no goroutine has panicked, main has not returned
\* and logger.Fatalf has not called os.Exit.
Alive == ~panicked /\ mainPc \notin {"exited", "fatal"}

\* context.CancelFunc: the first call marks the context, later calls do nothing.
CancelCtx(ctxs, g, who) ==
    IF g # 0 /\ ctxs[g] = "live" THEN [ctxs EXCEPT ![g] = who] ELSE ctxs

\* ctx.Done() of a context derived from main's ctx.
Done(ctxs, g) == ctxs[g] # "live" \/ ctxDone

\* Client.SendCommand: one POST to the device.
SendCommand(cmds, command) == Append(cmds, command)

SessionIdle ==
    /\ mainPc = "run"
    /\ ctxDone = FALSE
    /\ cancelled = FALSE
    /\ loop = [pc |-> "check", wake |-> 0]
    /\ subs = 0
    /\ subscribeTask = 0
    /\ watchdogTask = 0
    /\ subCtx = [g \in Calls |-> "none"]
    /\ watchCtx = [g \in Calls |-> "none"]
    /\ stream = [g \in Calls |-> NoStream]
    /\ wd = [g \in Calls |-> NoWatchdog]
    /\ skips = 0
    /\ task = 0
    /\ taskCtx = [k \in SkipCalls |-> "none"]
    /\ sk = [k \in SkipCalls |-> NoSkip]
    /\ commands = << >>
    /\ viewed = << >>
    /\ panicked = FALSE

MergeIdle ==
    /\ data = [hasSegments |-> FALSE, segments |-> << >>]
    /\ mpc = "off"
    /\ segments = << >>
    /\ ignoreTTL = TRUE
    /\ again = << >>

\* Command calls modelled.
MaxCmds == 3

CmdCalls == 1 .. MaxCmds

NoCmd == [pc |-> "none", kind |-> "none", mute |-> FALSE, override |-> FALSE]

\* NewYtLoungeApi: volumeState is an empty map, the mutex is unlocked.
CommandIdle ==
    /\ commandMutex = 0
    /\ cmd = [c \in CmdCalls |-> NoCmd]
    /\ muted = "nil"

\* timeToSegment is not exercised.
ScheduleIdle ==
    sched = [pc |-> "off", segs |-> << >>, position |-> 0, elapsed |-> 0, offset |-> 0,
             found |-> FALSE, timeTo |-> 0, target |-> 0, uuids |-> << >>, sleep |-> 0]

\* The keys the cache is called with, in a fixed order.
KeyOrder == <<"a", "b", "c">>

Keys == {KeyOrder[i] : i \in 1 .. Len(KeyOrder)}

\* Values that are Go strings: here the string that is also the key "a".
StringValues == {"a"}

\* A value of another type (Decorator stores []reflect.Value).
OtherValue == "reflect"

Values == StringValues \cup {OtherValue}

\* NewCache(capacity, ttl): the capacity and the ttl, in ticks of the clock.
Capacity == 2

Ttl == 1

\* The clock stops here.
MaxNow == 2

\* The list elements that can be alive at once: those in the list, and
\* those a key still maps to.
Elements == 1..(Capacity + 1 + Cardinality(Keys))

NoEntry == [value |-> "none", hasExpiration |-> FALSE, expiration |-> 0]

NoGet == [key |-> "none", found |-> FALSE, value |-> "none"]

NotStored == [live |-> FALSE, value |-> "none", hasExpiration |-> FALSE, expiration |-> 0]

\* NewCache: an empty map and an empty list.
CacheIdle ==
    /\ items = [k \in Keys |-> 0]
    /\ lruList = << >>
    /\ entry = [e \in Elements |-> NoEntry]
    /\ clock = 0
    /\ cachePanicked = FALSE
    /\ got = NoGet
    /\ stored = [k \in Keys |-> NotStored]
    /\ owner = [e \in Elements |-> "none"]

\* The callers of the shared cache, and the calls each of them makes.
MaxCallers == 2

MaxCalls == 2

Callers == 1 .. MaxCallers

NoCall == [pc |-> "idle", key |-> "none", found |-> FALSE, value |-> "none", n |-> 0]

\* Nobody calls the cache.
SharedIdle ==
    /\ mu = {}
    /\ call = [p \in Callers |-> NoCall]
    /\ raced = FALSE

\* The device's session before Loop starts; processSegments is not exercised.
\* The videos played, the channel each belongs to, and the channels a
\* configuration can whitelist.
Videos == {"v1", "v2"}

Channels == {"c1", "c2"}

ChannelOf == [v \in Videos |-> IF v = "v1" THEN "c1" ELSE "c2"]

\* The requests counted per kind and video.
MaxRequests == 2

NoResult == [video |-> "none", err |-> "none", segments |-> << >>, ignoreTTL |-> FALSE]

\* GetSegments is not exercised.
ResolveIdle ==
    /\ helper = [kind |-> "none", apiKey |-> FALSE, whitelist |-> {},
                 channelWhitelist |-> {}, cache |-> {}]
    /\ lookups = 0
    /\ queries = [v \in Videos |-> 0]
    /\ resolved = NoResult
    /\ fetched = {}

\* NewYtLoungeApi: the policy flags and the shorts flag are false.
HandlerIdle ==
    /\ muteAds = FALSE
    /\ skipAds = FALSE
    /\ shortsDisconnected = FALSE
    /\ prefetched = {}

SessionInit ==
    /\ SessionIdle /\ MergeIdle /\ CommandIdle /\ ScheduleIdle /\ CacheIdle /\ SharedIdle
    /\ ResolveIdle
    /\ HandlerIdle

\* A timer is running: a step of the clock changes the state.
TimerRunning ==
    \/ loop.pc = "wait" /\ loop.wake > 0
    \/ \E g \in Calls : wd[g].pc \in {"select", "call", "clear"} /\ wd[g].due > -Window
    \/ \E k \in SkipCalls : sk[k].pc = "fetch" /\ sk[k].elapsed < MaxElapsed
    \/ \E k \in SkipCalls : sk[k].pc = "sleep" /\ sk[k].sleep > 0

\* A goroutine is in the middle of a handler, or has a wake-up that is not
\* a timer pending (a done context, the loop test).
Busy ==
    \/ \E g \in Calls : wd[g].pc \in {"call", "clear"}
    \/ \E g \in Calls : wd[g].pc = "select" /\ Done(watchCtx, g)
    \/ \E g \in Calls : stream[g].pc = "handling"
    \/ \E g \in Calls : stream[g].pc = "waiting" /\ Done(subCtx, g)
    \/ loop.pc = "check" /\ (cancelled \/ subs < MaxSubs)
    \/ loop.pc = "wait" /\ ctxDone

\* The clock advances by one step.  Go timers fire no earlier than their
\* duration and the runtime gives no upper bound, so time may pass while a
\* timer is due; the steps of a handler take no time on this clock.  A ticker
\* keeps its period: its next tick is due one period after the previous one
\* was due, and it buffers a single tick.
Tick ==
    /\ Alive
    /\ TimerRunning
    /\ ~Busy
    /\ loop' = [loop EXCEPT !.wake = Max(@ - Step, 0)]
    /\ wd' = [g \in Calls |->
                IF wd[g].pc \in {"select", "call", "clear"}
                THEN [wd[g] EXCEPT !.due = Max(@ - Step, -Window)]
                ELSE wd[g]]
    /\ sk' = [k \in SkipCalls |->
                IF sk[k].pc = "fetch" THEN [sk[k] EXCEPT !.elapsed = Min(@ + Step, MaxElapsed)]
                ELSE IF sk[k].pc = "sleep" THEN [sk[k] EXCEPT !.sleep = Max(@ - Step, 0)]
                ELSE sk[k]]
    /\ UNCHANGED <<mainPc, ctxDone, cancelled, subs, subscribeTask, watchdogTask,
                   subCtx, watchCtx, stream, skips, task, taskCtx, commands,
                   viewed, panicked>>
    /\ UNCHANGED exceptSession

\* Loop, the loop test passing: SubscribeMonitored(ctx, d.handleEvent), which
\* cancels the previous watchdog and subscription through the stored
\* handles, starts the subscribe and watchdog goroutines and returns nil at
\* once; Loop then enters its select.
LoopSubscribe ==
    /\ Alive
    /\ loop.pc = "check"
    /\ ~cancelled
    /\ subs < MaxSubs
    /\ LET g == subs + 1
       IN  /\ subs' = g
           /\ subCtx' = [CancelCtx(subCtx, subscribeTask, "subscribe") EXCEPT ![g] = "live"]
           /\ watchCtx' = [CancelCtx(watchCtx, watchdogTask, "subscribe") EXCEPT ![g] = "live"]
           /\ subscribeTask' = g
           /\ watchdogTask' = g
           /\ stream' = [stream EXCEPT ![g] = [pc |-> "waiting", ev |-> "none", pos |-> 0]]
           /\ wd' = [wd EXCEPT ![g] = [pc |-> "select", due |-> Window]]
    /\ loop' = [pc |-> "wait", wake |-> Backoff]
    /\ UNCHANGED <<mainPc, ctxDone, cancelled, skips, task, taskCtx, sk, commands,
                   viewed, panicked>>
    /\ UNCHANGED exceptSession

\* Loop, the loop test failing: d.cancelled is set.
LoopExit ==
    /\ Alive
    /\ loop.pc = "check"
    /\ cancelled
    /\ loop' = [pc |-> "done", wake |-> 0]
    /\ UNCHANGED <<mainPc, ctxDone, cancelled, subs, subscribeTask, watchdogTask,
                   subCtx, watchCtx, stream, wd, skips, task, taskCtx, sk, commands,
                   viewed, panicked>>
    /\ UNCHANGED exceptSession

\* Loop's select, case <-time.After(10 * time.Second): continue.
LoopBackoff ==
    /\ Alive
    /\ loop.pc = "wait"
    /\ loop.wake = 0
    /\ loop' = [pc |-> "check", wake |-> 0]
    /\ UNCHANGED <<mainPc, ctxDone, cancelled, subs, subscribeTask, watchdogTask,
                   subCtx, watchCtx, stream, wd, skips, task, taskCtx, sk, commands,
                   viewed, panicked>>
    /\ UNCHANGED exceptSession

\* Loop's select, case <-ctx.Done(): return.
LoopCtxDone ==
    /\ Alive
    /\ loop.pc = "wait"
    /\ ctxDone
    /\ loop' = [pc |-> "done", wake |-> 0]
    /\ UNCHANGED <<mainPc, ctxDone, cancelled, subs, subscribeTask, watchdogTask,
                   subCtx, watchCtx, stream, wd, skips, task, taskCtx, sk, commands,
                   viewed, panicked>>
    /\ UNCHANGED exceptSession

\* The watchdog's select, case <-ctx.Done(): return (the deferred
\* ticker.Stop() runs).
WatchdogDone(g) ==
    /\ Alive
    /\ wd[g].pc = "select"
    /\ Done(watchCtx, g)
    /\ wd' = [wd EXCEPT ![g] = [pc |-> "done", due |-> 0]]
    /\ UNCHANGED <<mainPc, ctxDone, cancelled, loop, subs, subscribeTask, watchdogTask,
                   subCtx, watchCtx, stream, skips, task, taskCtx, sk, commands,
                   viewed, panicked>>
    /\ UNCHANGED exceptSession

\* The watchdog's select, case <-ticker.C, and the test y.subscribeTask != nil.
\* (select chooses among the ready cases, so a tick that is due can be taken
\* even when ctx is done.)
WatchdogTick(g) ==
    /\ Alive
    /\ wd[g].pc = "select"
    /\ wd[g].due <= 0
    /\ wd' = [wd EXCEPT ![g] = [pc |-> IF subscribeTask # 0 THEN "call" ELSE "select",
                                due |-> wd[g].due + Window]]
    /\ UNCHANGED <<mainPc, ctxDone, cancelled, loop, subs, subscribeTask, watchdogTask,
                   subCtx, watchCtx, stream, skips, task, taskCtx, sk, commands,
                   viewed, panicked>>
    /\ UNCHANGED exceptSession

\* The watchdog's y.subscribeTask(): the field is read again, without any
\* lock; calling a nil func value panics.
WatchdogCall(g) ==
    /\ Alive
    /\ wd[g].pc = "call"
    /\ IF subscribeTask = 0
       THEN /\ panicked' = TRUE
            /\ UNCHANGED <<subCtx, wd>>
       ELSE /\ subCtx' = CancelCtx(subCtx, subscribeTask, "watchdog")
            /\ wd' = [wd EXCEPT ![g].pc = "clear"]
            /\ UNCHANGED panicked
    /\ UNCHANGED <<mainPc, ctxDone, cancelled, loop, subs, subscribeTask, watchdogTask,
                   watchCtx, stream, skips, task, taskCtx, sk, commands,
                   viewed>>
    /\ UNCHANGED exceptSession

\* The watchdog's y.subscribeTask = nil.
WatchdogClear(g) ==
    /\ Alive
    /\ wd[g].pc = "clear"
    /\ subscribeTask' = 0
    /\ wd' = [wd EXCEPT ![g].pc = "select"]
    /\ UNCHANGED <<mainPc, ctxDone, cancelled, loop, subs, watchdogTask,
                   subCtx, watchCtx, stream, skips, task, taskCtx, sk, commands,
                   viewed, panicked>>
    /\ UNCHANGED exceptSession

\* The command calls started so far.
Started(cm) == Cardinality({ c \in CmdCalls : cm[c].pc # "none" })

\* The most command calls a handler starts for the event.
MaxStarted(ev) ==
    IF ev = "onAdStateChangeSkippable" THEN 2
    ELSE IF ev \in {"onVolumeChangedMuted", "onVolumeChangedUnmuted",
                    "loungeScreenDisconnectedByUser", "loungeScreenDisconnectedOther",
                    "nowPlaying"} THEN 0
    ELSE 1

\* Number of onStateChange events received and not yet handled.
PendingStateChanges == Cardinality({ g \in Calls : stream[g].ev \in StateChanges })

\* The subscription stream of call g yields an event (eventName, payload);
\* the subscribe goroutine will hand it to ProcessEvent.
Receive(g, ev, pos) ==
    /\ Alive
    /\ stream[g].pc = "waiting"
    /\ ~Done(subCtx, g)
    /\ ev \in StateChanges => skips + PendingStateChanges < MaxSkips
    /\ ev \notin StateChanges => pos = 0
    /\ ev \in HandlerEvents =>
          /\ Started(cmd) + MaxStarted(ev) <= MaxCmds
          /\ \A h \in Calls : stream[h].ev \notin HandlerEvents
    /\ stream' = [stream EXCEPT ![g] = [pc |-> "handling", ev |-> ev, pos |-> pos]]
    /\ UNCHANGED <<mainPc, ctxDone, cancelled, loop, subs, subscribeTask, watchdogTask,
                   subCtx, watchCtx, wd, skips, task, taskCtx, sk, commands,
                   viewed, panicked>>
    /\ UNCHANGED exceptSession

\* The subscription stream of call g ends: its context is done, or the
\* transport failed.
StreamEnd(g, failed) ==
    /\ Alive
    /\ stream[g].pc = "waiting"
    /\ ~failed => Done(subCtx, g)
    /\ failed => ~Done(subCtx, g)
    /\ stream' = [stream EXCEPT ![g].pc = IF failed THEN "failed" ELSE "ended"]
    /\ UNCHANGED <<mainPc, ctxDone, cancelled, loop, subs, subscribeTask, watchdogTask,
                   subCtx, watchCtx, wd, skips, task, taskCtx, sk, commands,
                   viewed, panicked>>
    /\ UNCHANGED exceptSession

\* HandlePlaybackStateChange(state) with state.CurrentTime = pos: cancel
\* d.task, make a new Task, and start processPlaybackState(state, time.Now())
\* as a goroutine.
PlaybackStateChange(pos) ==
    LET k == skips + 1
    IN  /\ skips' = k
        /\ taskCtx' = [CancelCtx(taskCtx, task, "cancelled") EXCEPT ![k] = "live"]
        /\ task' = k
        /\ sk' = [sk EXCEPT ![k] = [NoSkip EXCEPT !.pc = "fetch", !.pos = pos]]

\* Events whose payload is malformed: no arguments at all, a first argument
\* that is not a map, a map without "videoId".
MalformedEvents ==
    {"onStateChangeNoArgs", "onStateChangeNotMap", "onStateChangeNoVideoId",
     "loungeStatusNoArgs", "onVolumeChangedNoArgs", "onVolumeChangedNotMap"}

\* The malformed events on which ProcessEvent or the callback panics:
\* args[0] of an empty args (index out of range), the unchecked type
\* assertions args[0].(map[string]interface{}) of onVolumeChanged and
\* data["videoId"].(string) of handleEvent.
PayloadPanics(ev) ==
    ev \in {"onStateChangeNoArgs", "onStateChangeNoVideoId", "loungeStatusNoArgs",
            "onVolumeChangedNotMap"}

\* go y.Mute(mute, true) and the go statements of the other command methods.
MuteCall(mute) == [kind |-> "mute", mute |-> mute, override |-> TRUE]
CommandCall(kind) == [kind |-> kind, mute |-> FALSE, override |-> FALSE]

\* The goroutines started: each blocks in y.commandMutex.Lock().
Go(cm, calls) ==
    [c \in CmdCalls |->
        IF c > Started(cm) /\ c <= Started(cm) + Len(calls)
        THEN [pc |-> "lock", kind |-> calls[c - Started(cm)].kind,
              mute |-> calls[c - Started(cm)].mute,
              override |-> calls[c - Started(cm)].override]
        ELSE cm[c]]

\* The command goroutines the switch of ProcessEvent starts for an event, in
\* the order of its go statements.
ProcessEventCalls(ev) ==
    IF ev \in {"onStateChangePlaying", "nowPlayingPlaying"}
    THEN IF muteAds THEN << MuteCall(FALSE) >> ELSE << >>
    ELSE IF ev = "onAdStateChangeEnded"
    THEN << MuteCall(FALSE) >>
    ELSE IF ev \in {"onAdStateChangeSkippable", "onAdStateChangeUnskippable"}
    THEN IF skipAds /\ ev = "onAdStateChangeSkippable"
         THEN << CommandCall("skipAd"), MuteCall(FALSE) >>
         ELSE IF muteAds THEN << MuteCall(TRUE) >> ELSE << >>
    ELSE IF ev = "onSubtitlesTrackChanged" /\ shortsDisconnected
    THEN << CommandCall("setPlaylist") >>
    ELSE << >>

\* y.shortsDisconnected after the switch of ProcessEvent.
ProcessEventShorts(ev) ==
    IF ev = "onSubtitlesTrackChanged" THEN FALSE
    ELSE IF ev = "loungeScreenDisconnectedByUser" THEN TRUE
    ELSE shortsDisconnected

\* The command goroutines the switch of YtLoungeApi.handleEvent starts.
HandleEventCalls(ev) ==
    IF ev = "nowPlayingPlaying"
    THEN IF muteAds THEN << MuteCall(FALSE) >> ELSE << >>
    ELSE IF ev = "onStateChangeBuffering" /\ shortsDisconnected
    THEN << CommandCall("getNowPlaying") >>
    ELSE IF ev = "onStateChangePlaying"
    THEN IF muteAds THEN << MuteCall(TRUE) >> ELSE << >>
    ELSE IF ev = "onAdStateChangeEnded"
    THEN << MuteCall(FALSE) >>
    ELSE IF ev \in {"onAdStateChangeSkippable", "onAdStateChangeUnskippable"}
    THEN IF skipAds
         THEN IF ev = "onAdStateChangeSkippable"
              THEN << CommandCall("skipAd"), MuteCall(FALSE) >>
              ELSE << >>
         ELSE IF muteAds THEN << MuteCall(TRUE) >> ELSE << >>
    ELSE << >>

\* y.shortsDisconnected after the switch of YtLoungeApi.handleEvent.
HandleEventShorts(ev) ==
    IF ev = "onStateChangeBuffering" THEN FALSE
    ELSE IF ev \in {"onSubtitlesTrackChanged", "loungeScreenDisconnectedByUser",
                    "loungeScreenDisconnectedOther"} THEN TRUE
    ELSE shortsDisconnected

\* The video ids YtLoungeApi.handleEvent starts a GetSegments goroutine for.
HandleEventPrefetch(ev) ==
    IF ev \in {"nowPlaying", "nowPlayingPlaying"} THEN {"v1"} ELSE {}

\* case "onVolumeChanged": y.volumeState is replaced by the event's map,
\* without taking y.commandMutex.
VolumeChanged(ev) ==
    IF ev = "onVolumeChangedMuted" THEN "true"
    ELSE IF ev = "onVolumeChangedUnmuted" THEN "false"
    ELSE muted

\* What a handler's switch does for an event: the goroutines it starts and
\* the fields it writes.
Switch(calls, ev, shorts, prefetch) ==
    /\ cmd' = Go(cmd, calls)
    /\ muted' = VolumeChanged(ev)
    /\ shortsDisconnected' = shorts
    /\ prefetched' = prefetched \cup prefetch

\* What the session's handlers leave alone.
exceptHandler == <<mergeVars, scheduleVars, cacheVars, sharedVars, resolveVars>>

\* ProcessEvent(eventType, args) for the event the stream of call g holds:
\* cancel the watchdog through the stored handle; run the switch (on a
\* blacklisted loungeStatus call y.subscribeTask() and return); then run the
\* callback d.handleEvent, which on onStateChange runs
\* HandlePlaybackStateChange.
ProcessEvent(g) ==
    /\ Alive
    /\ stream[g].pc = "handling"
    /\ watchCtx' = CancelCtx(watchCtx, watchdogTask, "event")
    /\ IF stream[g].ev = "loungeStatusBlacklisted"
       THEN /\ IF subscribeTask = 0
               THEN /\ panicked' = TRUE
                    /\ UNCHANGED subCtx
               ELSE /\ subCtx' = CancelCtx(subCtx, subscribeTask, "event")
                    /\ UNCHANGED panicked
            /\ UNCHANGED <<skips, task, taskCtx, sk>>
            /\ UNCHANGED <<cmd, muted, shortsDisconnected, prefetched>>
       ELSE IF PayloadPanics(stream[g].ev)
       THEN /\ panicked' = TRUE
            /\ UNCHANGED <<subCtx, skips, task, taskCtx, sk>>
            /\ UNCHANGED <<cmd, muted, shortsDisconnected, prefetched>>
       ELSE /\ Switch(ProcessEventCalls(stream[g].ev), stream[g].ev,
                      ProcessEventShorts(stream[g].ev), {})
            /\ IF stream[g].ev \in StateChanges
               THEN PlaybackStateChange(stream[g].pos)
               ELSE UNCHANGED <<skips, task, taskCtx, sk>>
            /\ UNCHANGED <<subCtx, panicked>>
    /\ stream' = [stream EXCEPT ![g] = [pc |-> "waiting", ev |-> "none", pos |-> 0]]
    /\ UNCHANGED <<mainPc, ctxDone, cancelled, loop, subs, subscribeTask, watchdogTask,
                   wd, commands, viewed>>
    /\ UNCHANGED <<commandMutex, muteAds, skipAds>>
    /\ UNCHANGED exceptHandler

\* The payloads on which the callback d.handleEvent panics: args[0] of an
\* empty args and data["videoId"].(string).
CallbackPanics(ev) == ev \in {"onStateChangeNoArgs", "onStateChangeNoVideoId"}

\* YtLoungeApi.handleEvent(event, args) for the event the stream of call g
\* holds: the switch, then the callback.  It leaves the watchdog and the
\* subscription alone.
handleEvent(g) ==
    /\ Alive
    /\ stream[g].pc = "handling"
    /\ IF CallbackPanics(stream[g].ev)
       THEN /\ panicked' = TRUE
            /\ UNCHANGED <<skips, task, taskCtx, sk>>
            /\ UNCHANGED <<cmd, muted, shortsDisconnected, prefetched>>
       ELSE /\ Switch(HandleEventCalls(stream[g].ev), stream[g].ev,
                      HandleEventShorts(stream[g].ev), HandleEventPrefetch(stream[g].ev))
            /\ IF stream[g].ev \in StateChanges
               THEN PlaybackStateChange(stream[g].pos)
               ELSE UNCHANGED <<skips, task, taskCtx, sk>>
            /\ UNCHANGED panicked
    /\ stream' = [stream EXCEPT ![g] = [pc |-> "waiting", ev |-> "none", pos |-> 0]]
    /\ UNCHANGED <<mainPc, ctxDone, cancelled, loop, subs, subscribeTask, watchdogTask,
                   subCtx, watchCtx, wd, commands, viewed>>
    /\ UNCHANGED <<commandMutex, muteAds, skipAds>>
    /\ UNCHANGED exceptHandler

\* A mutant of SkipSchedule: an error of GetSegments ends the process (Fatalf
\* in place of Errorf).
SkipScheduleFatal(k, segs, failed) ==
    /\ Alive
    /\ sk[k].pc = "fetch"
    /\ LET r == TimeToSegment(segs, sk[k].pos, sk[k].elapsed, DeviceOffset)
       IN  sk' = [sk EXCEPT ![k] =
                    IF segs # << >> /\ r.found
                    THEN [@ EXCEPT !.pc = "sleep",
                                   !.elapsed = 0,
                                   !.sleep = Max(r.timeTo, 0),
                                   !.position = r.position,
                                   !.uuids = r.uuids,
                                   !.failed = failed]
                    ELSE [@ EXCEPT !.pc = "done", !.elapsed = 0, !.failed = failed]]
    /\ panicked' = failed
    /\ UNCHANGED <<mainPc, ctxDone, cancelled, loop, subs, subscribeTask, watchdogTask,
                   subCtx, watchCtx, stream, wd, skips, task, taskCtx, commands,
                   viewed>>
    /\ UNCHANGED exceptSession

\* processPlaybackState up to the time.Sleep of skip: GetSegments returns
\* segs (nil when it failed; the error is logged in debug mode), timeToSegment
\* picks the segment and calls skip(timeTo, end, uuids), which sleeps timeTo
\* (not at all when timeTo <= 0).
SkipSchedule(k, segs, failed) ==
    /\ Alive
    /\ sk[k].pc = "fetch"
    /\ LET r == TimeToSegment(segs, sk[k].pos, sk[k].elapsed, DeviceOffset)
       IN  sk' = [sk EXCEPT ![k] =
                    IF segs # << >> /\ r.found
                    THEN [@ EXCEPT !.pc = "sleep",
                                   !.elapsed = 0,
                                   !.sleep = Max(r.timeTo, 0),
                                   !.position = r.position,
                                   !.uuids = r.uuids,
                                   !.failed = failed]
                    ELSE [@ EXCEPT !.pc = "done", !.elapsed = 0, !.failed = failed]]
    /\ UNCHANGED <<mainPc, ctxDone, cancelled, loop, subs, subscribeTask, watchdogTask,
                   subCtx, watchCtx, stream, wd, skips, task, taskCtx, commands,
                   viewed, panicked>>
    /\ UNCHANGED exceptSession

\* skip after its time.Sleep: it logs "Skipping segment: seeking to ..." and
\* starts the MarkViewedSegments goroutine; no command is sent and Task.ctx
\* is not consulted.
SkipFire(k) ==
    /\ Alive
    /\ sk[k].pc = "sleep"
    /\ sk[k].sleep = 0
    /\ sk' = [sk EXCEPT ![k].pc = "mark"]
    /\ UNCHANGED <<mainPc, ctxDone, cancelled, loop, subs, subscribeTask, watchdogTask,
                   subCtx, watchCtx, stream, wd, skips, task, taskCtx, commands,
                   viewed, panicked>>
    /\ UNCHANGED exceptSession

\* The goroutine skip starts: MarkViewedSegments(context.Background(), uuids);
\* skip returns when it has finished (wg.Wait).
SkipMarkViewed(k) ==
    /\ Alive
    /\ sk[k].pc = "mark"
    /\ viewed' = Append(viewed, sk[k].uuids)
    /\ sk' = [sk EXCEPT ![k].pc = "done"]
    /\ UNCHANGED <<mainPc, ctxDone, cancelled, loop, subs, subscribeTask, watchdogTask,
                   subCtx, watchCtx, stream, wd, skips, task, taskCtx, commands,
                   panicked>>
    /\ UNCHANGED exceptSession

\* main: the signal arrives and cancel() is called.
MainSignal ==
    /\ Alive
    /\ mainPc = "run"
    /\ ctxDone' = TRUE
    /\ mainPc' = "ctxCancelled"
    /\ UNCHANGED <<cancelled, loop, subs, subscribeTask, watchdogTask,
                   subCtx, watchCtx, stream, wd, skips, task, taskCtx, sk, commands,
                   viewed, panicked>>
    /\ UNCHANGED exceptSession

\* main: device.Cancel(), which sets d.cancelled and cancels d.task.
MainCancel ==
    /\ Alive
    /\ mainPc = "ctxCancelled"
    /\ cancelled' = TRUE
    /\ taskCtx' = CancelCtx(taskCtx, task, "cancelled")
    /\ mainPc' = "devCancelled"
    /\ UNCHANGED <<ctxDone, loop, subs, subscribeTask, watchdogTask,
                   subCtx, watchCtx, stream, wd, skips, task, sk, commands,
                   viewed, panicked>>
    /\ UNCHANGED exceptSession

\* main: wg.Wait() returns once Loop has returned, and main returns.
MainExit ==
    /\ Alive
    /\ mainPc = "devCancelled"
    /\ loop.pc = "done"
    /\ mainPc' = "exited"
    /\ UNCHANGED <<ctxDone, cancelled, loop, subs, subscribeTask, watchdogTask,
                   subCtx, watchCtx, stream, wd, skips, task, taskCtx, sk, commands,
                   viewed, panicked>>
    /\ UNCHANGED exceptSession

\* The subscription side of the session: Loop, SubscribeMonitored, the
\* watchdog and subscribe goroutines and ProcessEvent, with the events whose
\* callback does nothing.  (An onStateChange event acts on these variables
\* exactly as a loungeStatus event without a blacklisted client does.)
SubscriptionEvents == EventNames \ {"onStateChange"}

SessionNext ==
    \/ Tick
    \/ LoopSubscribe
    \/ LoopBackoff
    \/ \E g \in Calls : WatchdogDone(g)
    \/ \E g \in Calls : WatchdogTick(g)
    \/ \E g \in Calls : WatchdogCall(g)
    \/ \E g \in Calls : WatchdogClear(g)
    \/ \E g \in Calls, ev \in SubscriptionEvents : Receive(g, ev, 0)
    \/ \E g \in Calls, failed \in BOOLEAN : StreamEnd(g, failed)
    \/ \E g \in Calls : ProcessEvent(g)

SpecSession == SessionInit /\ [][SessionNext]_vars

\* The skip side of the session: one subscription delivering onStateChange
\* events, whose callback is HandlePlaybackStateChange, and the
\* processPlaybackState goroutines it starts.
SkipNext ==
    \/ Tick
    \/ LoopSubscribe
    \/ \E g \in Calls : WatchdogDone(g)
    \/ \E g \in Calls, pos \in Positions : Receive(g, "onStateChange", pos)
    \/ \E g \in Calls : ProcessEvent(g)
    \/ \E k \in SkipCalls, r \in FetchResults : SkipSchedule(k, r.segments, r.failed)
    \/ \E k \in SkipCalls : SkipFire(k)
    \/ \E k \in SkipCalls : SkipMarkViewed(k)

SpecSkip == SessionInit /\ [][SkipNext]_vars

\* The whole device: both sides, every event, and the shutdown sequence of main.
DeviceNext ==
    \/ SessionNext
    \/ SkipNext
    \/ LoopExit
    \/ LoopCtxDone
    \/ MainSignal
    \/ MainCancel
    \/ MainExit

SpecDevice == SessionInit /\ [][DeviceNext]_vars

\* The skip side together with the shutdown sequence of main: the signal,
\* cancel(), device.Cancel(), wg.Wait() and the return of main.
ShutdownNext ==
    \/ SkipNext
    \/ LoopBackoff
    \/ LoopExit
    \/ LoopCtxDone
    \/ \E g \in Calls : StreamEnd(g, FALSE)
    \/ MainSignal
    \/ MainCancel
    \/ MainExit

SpecShutdown == SessionInit /\ [][ShutdownNext]_vars

\* The subscription side with malformed events delivered as well.
EventsNext ==
    \/ SessionNext
    \/ \E g \in Calls, ev \in MalformedEvents : Receive(g, ev, 0)

SpecEvents == SessionInit /\ [][EventsNext]_vars

\* main before the device listener is constructed: Loop is not started.
StartupInit ==
    /\ mainPc = "start"
    /\ ctxDone = FALSE
    /\ cancelled = FALSE
    /\ loop = [pc |-> "none", wake |-> 0]
    /\ subs = 0
    /\ subscribeTask = 0
    /\ watchdogTask = 0
    /\ subCtx = [g \in Calls |-> "none"]
    /\ watchCtx = [g \in Calls |-> "none"]
    /\ stream = [g \in Calls |-> NoStream]
    /\ wd = [g \in Calls |-> NoWatchdog]
    /\ skips = 0
    /\ task = 0
    /\ taskCtx = [k \in SkipCalls |-> "none"]
    /\ sk = [k \in SkipCalls |-> NoSkip]
    /\ commands = << >>
    /\ viewed = << >>
    /\ panicked = FALSE
    /\ MergeIdle
    /\ CommandIdle
    /\ ScheduleIdle
    /\ CacheIdle
    /\ SharedIdle
    /\ ResolveIdle
    /\ HandlerIdle

\* main: NewDeviceListener, which calls ytlounge.NewClient; NewClient asks
\* the device for its screen id (GetScreenID).  reached = FALSE is a
\* transport failure of that request: NewClient returns the error and
\* NewDeviceListener calls logger.Fatalf, which exits the process.
\* Otherwise main goes on and starts Loop.
NewDeviceListener(reached) ==
    /\ mainPc = "start"
    /\ mainPc' = IF reached THEN "run" ELSE "fatal"
    /\ loop' = IF reached THEN [pc |-> "check", wake |-> 0] ELSE loop
    /\ UNCHANGED <<ctxDone, cancelled, subs, subscribeTask, watchdogTask,
                   subCtx, watchCtx, stream, wd, skips, task, taskCtx, sk, commands,
                   viewed, panicked>>
    /\ UNCHANGED exceptSession

\* Start-up followed by the subscription side, transport failures of the
\* stream included (StreamEnd with failed = TRUE).
StartupNext ==
    \/ \E reached \in BOOLEAN : NewDeviceListener(reached)
    \/ SessionNext

SpecStartup == StartupInit /\ [][StartupNext]_vars

(***************************************************************************)
(* The remote commands of YtLoungeApi: SetVolume, Mute, PlayVideo,         *)
(* GetNowPlaying, SkipAd and SetAutoPlayMode, each called from a goroutine *)
(* of its own (go y.Mute(...) in ProcessEvent).                            *)
(***************************************************************************)

\* The "command" field each method posts; Mute posts setVolume with "muted".
CommandKinds ==
    {"setVolume", "mute", "setPlaylist", "getNowPlaying", "skipAd", "setAutoplayMode"}

exceptCommand ==
    <<mergeVars, scheduleVars, cacheVars, sharedVars, resolveVars, handlerVars, mainPc, ctxDone, cancelled, loop, subs, subscribeTask, watchdogTask,
      subCtx, watchCtx, stream, wd, skips, task, taskCtx, sk, viewed, panicked>>

\* muteStr of Mute.
MuteStr(mute) == IF mute THEN "true" ELSE "false"

\* The map a method hands to SendCommand; muted is "none" when the map has
\* no "muted" key.
CommandOf(c) ==
    [command |-> IF c.kind = "mute" THEN "setVolume" ELSE c.kind,
     muted |-> IF c.kind = "mute" THEN MuteStr(c.mute) ELSE "none"]

\* A goroutine starts call c of a command method; it blocks in
\* y.commandMutex.Lock().
CmdCall(c, kind, mute, override) ==
    /\ Alive
    /\ cmd[c].pc = "none"
    /\ c > 1 => cmd[c - 1].pc # "none"
    /\ kind # "mute" => (~mute /\ ~override)
    /\ cmd' = [cmd EXCEPT ![c] = [pc |-> "lock", kind |-> kind, mute |-> mute,
                                   override |-> override]]
    /\ UNCHANGED <<commandMutex, muted, commands>>
    /\ UNCHANGED exceptCommand

\* A mutant of CmdLock: the lock is taken whether or not it is held.
CmdLockNoMutex(c) ==
    /\ Alive
    /\ cmd[c].pc = "lock"
    /\ commandMutex' = c
    /\ cmd' = [cmd EXCEPT ![c].pc = "locked"]
    /\ UNCHANGED <<muted, commands>>
    /\ UNCHANGED exceptCommand

\* y.commandMutex.Lock() returns.
CmdLock(c) ==
    /\ Alive
    /\ cmd[c].pc = "lock"
    /\ commandMutex = 0
    /\ commandMutex' = c
    /\ cmd' = [cmd EXCEPT ![c].pc = "locked"]
    /\ UNCHANGED <<muted, commands>>
    /\ UNCHANGED exceptCommand

\* The method's body up to the call of SendCommand.  Mute writes
\* volumeState["muted"] when override is set or the shadow differs, and
\* returns nil without a command otherwise.
CmdBody(c) ==
    /\ Alive
    /\ cmd[c].pc = "locked"
    /\ IF cmd[c].kind = "mute"
       THEN IF cmd[c].override \/ muted # MuteStr(cmd[c].mute)
            THEN /\ muted' = MuteStr(cmd[c].mute)
                 /\ cmd' = [cmd EXCEPT ![c].pc = "sending"]
            ELSE /\ cmd' = [cmd EXCEPT ![c].pc = "unlock"]
                 /\ UNCHANGED muted
       ELSE /\ cmd' = [cmd EXCEPT ![c].pc = "sending"]
            /\ UNCHANGED muted
    /\ UNCHANGED <<commandMutex, commands>>
    /\ UNCHANGED exceptCommand

\* y.client.SendCommand(...) posts the command and returns.
CmdSend(c) ==
    /\ Alive
    /\ cmd[c].pc = "sending"
    /\ commands' = SendCommand(commands, CommandOf(cmd[c]))
    /\ cmd' = [cmd EXCEPT ![c].pc = "unlock"]
    /\ UNCHANGED <<commandMutex, muted>>
    /\ UNCHANGED exceptCommand

\* The deferred y.commandMutex.Unlock().
CmdUnlock(c) ==
    /\ Alive
    /\ cmd[c].pc = "unlock"
    /\ commandMutex' = IF commandMutex = c THEN 0 ELSE commandMutex
    /\ cmd' = [cmd EXCEPT ![c].pc = "done"]
    /\ UNCHANGED <<muted, commands>>
    /\ UNCHANGED exceptCommand

CommandNext ==
    \/ \E c \in CmdCalls, kind \in CommandKinds, mute \in BOOLEAN, override \in BOOLEAN :
          CmdCall(c, kind, mute, override)
    \/ \E c \in CmdCalls : CmdLock(c)
    \/ \E c \in CmdCalls : CmdBody(c)
    \/ \E c \in CmdCalls : CmdSend(c)
    \/ \E c \in CmdCalls : CmdUnlock(c)

SpecCommands == SessionInit /\ [][CommandNext]_vars

(***************************************************************************)
(* SpecHandlers: the event handlers of YtLoungeApi with the ad policies    *)
(* set, and the command goroutines they start                              *)
(***************************************************************************)

\* SetMuteAds(mute), called while the device is set up, before Loop
\* subscribes.
SetMuteAds(mute) ==
    /\ Alive
    /\ subs = 0
    /\ muteAds' = mute
    /\ UNCHANGED <<skipAds, shortsDisconnected, prefetched>>
    /\ UNCHANGED <<sessionVars, commandVars>>
    /\ UNCHANGED exceptHandler

\* SetSkipAds(skip), likewise.
SetSkipAds(skip) ==
    /\ Alive
    /\ subs = 0
    /\ skipAds' = skip
    /\ UNCHANGED <<muteAds, shortsDisconnected, prefetched>>
    /\ UNCHANGED <<sessionVars, commandVars>>
    /\ UNCHANGED exceptHandler

\* The events about playback, ads and the volume.
AdEvents ==
    {"onStateChangePlaying", "onAdStateChangeEnded", "onAdStateChangeSkippable",
     "onAdStateChangeUnskippable", "onVolumeChangedMuted", "onVolumeChangedUnmuted"}

\* One subscription delivering the events of AdEvents to ProcessEvent or to
\* handleEvent, with the policies set, and the command goroutines the
\* handlers start.
HandlerNext ==
    \/ \E mute \in BOOLEAN : SetMuteAds(mute)
    \/ \E skip \in BOOLEAN : SetSkipAds(skip)
    \/ LoopSubscribe
    \/ \E g \in Calls, ev \in AdEvents : Receive(g, ev, 0)
    \/ \E g \in Calls : ProcessEvent(g)
    \/ \E g \in Calls : handleEvent(g)
    \/ \E c \in CmdCalls : CmdLock(c)
    \/ \E c \in CmdCalls : CmdBody(c)
    \/ \E c \in CmdCalls : CmdSend(c)
    \/ \E c \in CmdCalls : CmdUnlock(c)

SpecHandlers == SessionInit /\ [][HandlerNext]_vars

\* The events about the video playing and the shorts player.
ShortsEvents == HandlerEvents \ AdEvents

\* One subscription delivering the events of ShortsEvents, with the policies
\* as NewYtLoungeApi leaves them.
ShortsNext ==
    \/ LoopSubscribe
    \/ \E g \in Calls, ev \in ShortsEvents : Receive(g, ev, 0)
    \/ \E g \in Calls : ProcessEvent(g)
    \/ \E g \in Calls : handleEvent(g)
    \/ \E c \in CmdCalls : CmdLock(c)
    \/ \E c \in CmdCalls : CmdBody(c)
    \/ \E c \in CmdCalls : CmdSend(c)
    \/ \E c \in CmdCalls : CmdUnlock(c)

SpecShorts == SessionInit /\ [][ShortsNext]_vars

(***************************************************************************)
(* SpecSchedule: timeToSegment and skip on every bounded input             *)
(***************************************************************************)

\* Longest segment list drawn by SpecSchedule.
MaxSegs == 2
\* Largest time.Since(startTime) drawn by SpecSchedule, in units.
MaxSchedElapsed == 2

\* Times of the segments drawn: 0, half a second, 1, 1.5, 5 and 8 seconds.
SchedTimes == {0, 1, Second, Second + 1, 5 * Second, 8 * Second}

\* Sample positions drawn: 0, half a second, 1, 1.5 and 5 seconds.
SchedPositions == {0, 1, Second, Second + 1, 5 * Second}

\* Device.Offset values drawn, in units.
SchedOffsets == {-1, 0, 1}

\* Segment k of a list, with the id k.
SchedSegment(st, en, k) == [start |-> st, end |-> en, uuids |-> << k >>]

\* The lists GetSegments returns are results of processSegments: sorted by
\* start, with start <= end and at least a second between two segments.
IsResolved(l) ==
    /\ \A k \in 1 .. Len(l) : l[k].start <= l[k].end
    /\ \A k \in 1 .. Len(l) - 1 : l[k + 1].start - l[k].end >= Second

ScheduleInit ==
    /\ \E n \in 0 .. MaxSegs :
        \E st \in [1 .. n -> SchedTimes], en \in [1 .. n -> SchedTimes] :
        \E position \in SchedPositions, elapsed \in 0 .. MaxSchedElapsed,
           offset \in SchedOffsets :
           LET l == [k \in 1 .. n |-> SchedSegment(st[k], en[k], k)]
           IN  /\ IsResolved(l)
               /\ sched = [pc |-> "input", segs |-> l, position |-> position,
                           elapsed |-> elapsed, offset |-> offset, found |-> FALSE,
                           timeTo |-> 0, target |-> 0, uuids |-> << >>, sleep |-> 0]
    /\ SessionIdle
    /\ MergeIdle
    /\ CommandIdle
    /\ CacheIdle
    /\ SharedIdle
    /\ ResolveIdle
    /\ HandlerIdle

\* processPlaybackState with the segments fetched: timeToSegment when there
\* are segments, and skip(timeToNext, nextSegment.End, nextSegment.UUIDs) up
\* to its time.Sleep, which returns at once for a duration <= 0.
Schedule ==
    /\ sched.pc = "input"
    /\ LET r == TimeToSegment(sched.segs, sched.position, sched.elapsed, sched.offset)
       IN  sched' = IF sched.segs # << >> /\ r.found
                    THEN [sched EXCEPT !.pc = "sleep", !.found = TRUE,
                                       !.timeTo = r.timeTo, !.target = r.position,
                                       !.uuids = r.uuids, !.sleep = Max(r.timeTo, 0)]
                    ELSE [sched EXCEPT !.pc = "idle"]
    /\ UNCHANGED exceptSchedule

\* One unit of the sleep passes.
ScheduleTick ==
    /\ sched.pc = "sleep"
    /\ sched.sleep > 0
    /\ sched' = [sched EXCEPT !.sleep = @ - 1]
    /\ UNCHANGED exceptSchedule

\* time.Sleep returns and skip goes on.
ScheduleFire ==
    /\ sched.pc = "sleep"
    /\ sched.sleep = 0
    /\ sched' = [sched EXCEPT !.pc = "fired"]
    /\ UNCHANGED exceptSchedule

ScheduleNext == Schedule \/ ScheduleTick \/ ScheduleFire

SpecSchedule == ScheduleInit /\ [][ScheduleNext]_vars

(***************************************************************************)
(* SpecCache: the LRU cache of package cache, one call at a time           *)
(***************************************************************************)

\* The element is in the list (list.Element.list == l).
InList(l, e) == \E i \in 1 .. Len(l) : l[i] = e

\* list.Remove: nothing happens to an element that is not in the list.
Remove(l, e) == SelectSeq(l, LAMBDA x : x # e)

\* list.MoveToFront: nothing happens to an element that is not in the list.
MoveToFront(l, e) == IF InList(l, e) THEN <<e>> \o Remove(l, e) ELSE l

\* list.PushFront allocates an element: one that is neither in the list nor
\* mapped by a key.
NewElement == CHOOSE e \in Elements : ~InList(lruList, e) /\ \A k \in Keys : items[k] # e

\* An element has no identity but its address.  The elements still in use
\* are named by their place: those in the list from front to back, then
\* those that only a key maps to, in the order of the keys; the others are
\* garbage.
Live(its, l) ==
    LET ks == SelectSeq(KeyOrder, LAMBDA k : its[k] # 0 /\ ~InList(l, its[k]))
    IN  l \o [i \in 1 .. Len(ks) |-> its[ks[i]]]

Place(live, e) == CHOOSE i \in 1 .. Len(live) : live[i] = e

\* The map, the list and the entries a call leaves behind.
Store(its, l, en, ow) ==
    LET live == Live(its, l)
    IN  /\ items' = [k \in Keys |-> IF its[k] = 0 THEN 0 ELSE Place(live, its[k])]
        /\ lruList' = [i \in 1 .. Len(l) |-> i]
        /\ entry' = [e \in Elements |-> IF e <= Len(live) THEN en[live[e]] ELSE NoEntry]
        /\ owner' = [e \in Elements |-> IF e <= Len(live) THEN ow[live[e]] ELSE "none"]

\* Get: entry.expiration != nil && time.Now().After(*entry.expiration).
Expired(e) == entry[e].hasExpiration /\ clock > entry[e].expiration

\* Cache.Get; an expired entry is deleted by Cache.Delete.
CacheGet(key) ==
    /\ ~cachePanicked
    /\ got = NoGet
    /\ IF items[key] # 0
       THEN IF Expired(items[key])
            THEN /\ Store([items EXCEPT ![key] = 0], Remove(lruList, items[key]), entry, owner)
                 /\ got' = [key |-> key, found |-> FALSE, value |-> "none"]
            ELSE /\ Store(items, MoveToFront(lruList, items[key]), entry, owner)
                 /\ got' = [key |-> key, found |-> TRUE, value |-> entry[items[key]].value]
       ELSE /\ got' = [key |-> key, found |-> FALSE, value |-> "none"]
            /\ UNCHANGED <<items, lruList, entry, owner>>
    /\ UNCHANGED <<clock, cachePanicked, stored>>
    /\ UNCHANGED exceptCache

\* evict, on the map and list Set has just built: the element at the back
\* leaves the list, then the key deleted from the map is its VALUE asserted
\* to be a string; the assertion panics on any other type.
evictPanics(l, en) == en[l[Len(l)]].value \notin StringValues

evictList(l) == SubSeq(l, 1, Len(l) - 1)

evictItems(its, l, en) ==
    [k \in Keys |-> IF k = en[l[Len(l)]].value THEN 0 ELSE its[k]]

\* Cache.Set between Lock and Unlock, with evict when the list has grown
\* beyond the capacity.
SetLocked(key, value, ignore) ==
    /\ LET new == [value |-> value,
                   hasExpiration |-> ~ignore /\ Ttl > 0,
                   expiration |-> IF ~ignore /\ Ttl > 0 THEN clock + Ttl ELSE 0]
           kept == [live |-> TRUE, value |-> value,
                    hasExpiration |-> new.hasExpiration, expiration |-> new.expiration]
       IN  IF items[key] # 0
           THEN /\ Store(items, MoveToFront(lruList, items[key]),
                         [entry EXCEPT ![items[key]] = new], owner)
                /\ stored' = [stored EXCEPT ![key] = kept]
                /\ UNCHANGED cachePanicked
           ELSE LET element == NewElement
                    l == <<element>> \o lruList
                    its == [items EXCEPT ![key] = element]
                    en == [entry EXCEPT ![element] = new]
                    ow == [owner EXCEPT ![element] = key]
                IN  IF Capacity > 0 /\ Len(l) > Capacity
                    THEN /\ cachePanicked' = evictPanics(l, en)
                         /\ Store(IF evictPanics(l, en) THEN its ELSE evictItems(its, l, en),
                                  evictList(l), en, ow)
                         /\ stored' = [k \in Keys |->
                                          IF k = key THEN kept
                                          ELSE IF its[k] = l[Len(l)] THEN NotStored
                                          ELSE stored[k]]
                    ELSE /\ Store(its, l, en, ow)
                         /\ stored' = [stored EXCEPT ![key] = kept]
                         /\ UNCHANGED cachePanicked

\* Cache.Set, called alone.
CacheSet(key, value, ignore) ==
    /\ ~cachePanicked
    /\ got = NoGet
    /\ SetLocked(key, value, ignore)
    /\ UNCHANGED <<clock, got>>
    /\ UNCHANGED exceptCache

\* Cache.Delete between Lock and Unlock.
DeleteLocked(key) ==
    /\ IF items[key] # 0
       THEN Store([items EXCEPT ![key] = 0], Remove(lruList, items[key]), entry, owner)
       ELSE UNCHANGED <<items, lruList, entry, owner>>
    /\ stored' = [stored EXCEPT ![key] = NotStored]

\* Cache.Delete, called alone.
CacheDelete(key) ==
    /\ ~cachePanicked
    /\ got = NoGet
    /\ DeleteLocked(key)
    /\ UNCHANGED <<clock, cachePanicked, got>>
    /\ UNCHANGED exceptCache

\* Cache.Clear.
CacheClear ==
    /\ ~cachePanicked
    /\ got = NoGet
    /\ items' = [k \in Keys |-> 0]
    /\ lruList' = << >>
    /\ entry' = [e \in Elements |-> NoEntry]
    /\ owner' = [e \in Elements |-> "none"]
    /\ stored' = [k \in Keys |-> NotStored]
    /\ UNCHANGED <<clock, cachePanicked, got>>
    /\ UNCHANGED exceptCache

\* Get has returned: the caller has the result and goes on to its next call.
CacheGetReturn ==
    /\ got # NoGet
    /\ got' = NoGet
    /\ UNCHANGED <<items, lruList, entry, clock, cachePanicked, stored, owner>>
    /\ UNCHANGED exceptCache

\* Time passes between two calls.
CacheTick ==
    /\ clock < MaxNow
    /\ got = NoGet
    /\ clock' = clock + 1
    /\ UNCHANGED <<items, lruList, entry, cachePanicked, got, stored, owner>>
    /\ UNCHANGED exceptCache

CacheInit ==
    /\ CacheIdle /\ SessionIdle /\ MergeIdle /\ CommandIdle /\ ScheduleIdle /\ SharedIdle
    /\ ResolveIdle
    /\ HandlerIdle

CacheNext ==
    \/ \E key \in Keys : CacheGet(key)
    \/ CacheGetReturn
    \/ \E key \in Keys, value \in Values, ignore \in BOOLEAN : CacheSet(key, value, ignore)
    \/ \E key \in Keys : CacheDelete(key)
    \/ CacheClear
    \/ CacheTick

SpecCache == CacheInit /\ [][CacheNext]_vars

(***************************************************************************)
(* SpecShared: several sessions call the same cache                        *)
(***************************************************************************)

\* Lock waits until no caller holds the read lock; the calls made under the
\* write lock (Set, Delete) run from Lock to Unlock in one step.
CanLock == mu = {}

Ready(p) == ~cachePanicked /\ ~raced /\ call[p].pc = "idle" /\ call[p].n < MaxCalls

\* Cache.Set by caller p.
SharedSet(p, key, value, ignore) ==
    /\ Ready(p)
    /\ CanLock
    /\ SetLocked(key, value, ignore)
    /\ call' = [call EXCEPT ![p] = [NoCall EXCEPT !.n = call[p].n + 1]]
    /\ UNCHANGED <<clock, got, mu, raced>>
    /\ UNCHANGED exceptShared

\* Cache.Delete by caller p.
SharedDelete(p, key) ==
    /\ Ready(p)
    /\ CanLock
    /\ DeleteLocked(key)
    /\ call' = [call EXCEPT ![p] = [NoCall EXCEPT !.n = call[p].n + 1]]
    /\ UNCHANGED <<clock, cachePanicked, got, mu, raced>>
    /\ UNCHANGED exceptShared

\* Cache.Get by caller p: RLock and the lookup in the map.  On an expired
\* entry the read lock is given up at once, for Delete.
SharedGet(p, key) ==
    /\ Ready(p)
    /\ IF items[key] # 0
       THEN IF Expired(items[key])
            THEN /\ call' = [call EXCEPT ![p].pc = "delete", ![p].key = key]
                 /\ UNCHANGED mu
            ELSE /\ call' = [call EXCEPT ![p].pc = "move", ![p].key = key]
                 /\ mu' = mu \cup {p}
       ELSE /\ call' = [call EXCEPT ![p].pc = "return", ![p].key = key]
            /\ mu' = mu \cup {p}
    /\ UNCHANGED <<cacheVars, raced>>
    /\ UNCHANGED exceptShared

\* Get, hit: c.lruList.MoveToFront(element), under the read lock.  When
\* another caller is at the same statement the two write the list's links
\* unsynchronized, and the list may come out corrupted.
SharedMove(p) ==
    /\ ~cachePanicked /\ ~raced
    /\ call[p].pc = "move"
    /\ Store(items, MoveToFront(lruList, items[call[p].key]), entry, owner)
    /\ call' = [call EXCEPT ![p].pc = "return", ![p].found = TRUE,
                            ![p].value = entry[items[call[p].key]].value]
    /\ IF \E q \in Callers \ {p} : call[q].pc = "move"
       THEN raced' \in BOOLEAN
       ELSE UNCHANGED raced
    /\ UNCHANGED <<clock, cachePanicked, got, stored, mu>>
    /\ UNCHANGED exceptShared

\* Get, expired entry: c.Delete(key), then RLock again.
SharedGetDelete(p) ==
    /\ ~cachePanicked /\ ~raced
    /\ call[p].pc = "delete"
    /\ CanLock
    /\ DeleteLocked(call[p].key)
    /\ call' = [call EXCEPT ![p].pc = "return"]
    /\ mu' = mu \cup {p}
    /\ UNCHANGED <<clock, cachePanicked, got, raced>>
    /\ UNCHANGED exceptShared

\* Get returns: the deferred RUnlock.
SharedReturn(p) ==
    /\ ~cachePanicked /\ ~raced
    /\ call[p].pc = "return"
    /\ mu' = mu \ {p}
    /\ call' = [call EXCEPT ![p] = [NoCall EXCEPT !.n = call[p].n + 1]]
    /\ UNCHANGED <<cacheVars, raced>>
    /\ UNCHANGED exceptShared

\* Time passes.
SharedTick ==
    /\ clock < MaxNow
    /\ clock' = clock + 1
    /\ UNCHANGED <<items, lruList, entry, cachePanicked, got, stored, owner>>
    /\ UNCHANGED sharedVars
    /\ UNCHANGED exceptShared

SharedNext ==
    \/ \E p \in Callers, key \in Keys, value \in Values, ignore \in BOOLEAN :
          SharedSet(p, key, value, ignore)
    \/ \E p \in Callers, key \in Keys : SharedDelete(p, key)
    \/ \E p \in Callers, key \in Keys : SharedGet(p, key)
    \/ \E p \in Callers : SharedMove(p)
    \/ \E p \in Callers : SharedGetDelete(p)
    \/ \E p \in Callers : SharedReturn(p)
    \/ SharedTick

SpecShared == CacheInit /\ [][SharedNext]_vars

(***************************************************************************)
(* SpecResolve: GetSegments of the two API helpers                         *)
(***************************************************************************)

\* NewApiHelper(config) keeps the configuration; NewAPIHelper(cfg, httpClient)
\* keeps cfg, the client and a new Cache, and leaves its channelWhitelist
\* field at its zero value.  apiKey: the key is not empty; whitelist: the
\* channels of the configuration's channel_whitelist.
NewHelper(kind, apiKey, whitelist) ==
    [kind |-> kind, apiKey |-> apiKey, whitelist |-> whitelist,
     channelWhitelist |-> {}, cache |-> {}]

\* The whitelist GetSegments consults: a.config.ChannelWhitelist in ApiHelper
\* (IsWhitelisted), the field a.channelWhitelist in APIHelper.
Whitelist(h) == IF h.kind = "ApiHelper" THEN h.whitelist ELSE h.channelWhitelist

\* What the segment provider can answer: the video's segments, a response
\* without the video, a failure.
ProviderAnswers == {"segments", "noVideo", "fail"}

\* GetSegments(video).  channel is what getChannelID returns ("fail": an
\* error), answer what the segment provider does.  The helper's cache is
\* neither read nor written.
GetSegments(video, channel, answer) ==
    /\ helper.kind # "none"
    /\ lookups < MaxRequests
    /\ queries[video] < MaxRequests
    /\ LET consult == helper.apiKey /\ Whitelist(helper) # {}
           processed == ProcessSegments([hasSegments |-> TRUE, segments |-> VideoRaw])
       IN  /\ lookups' = IF consult THEN lookups + 1 ELSE lookups
           /\ IF consult /\ channel = "fail"
              THEN /\ resolved' = [video |-> video, err |-> "channel",
                                   segments |-> << >>, ignoreTTL |-> FALSE]
                   /\ UNCHANGED queries
              ELSE IF consult /\ channel \in Whitelist(helper)
              THEN /\ resolved' = [video |-> video, err |-> "none",
                                   segments |-> << >>, ignoreTTL |-> TRUE]
                   /\ UNCHANGED queries
              ELSE /\ queries' = [queries EXCEPT ![video] = @ + 1]
                   /\ resolved' =
                         IF answer = "fail"
                         THEN [video |-> video, err |-> "provider",
                               segments |-> << >>, ignoreTTL |-> FALSE]
                         ELSE IF answer = "noVideo"
                         THEN [video |-> video, err |-> "none",
                               segments |-> << >>, ignoreTTL |-> TRUE]
                         ELSE [video |-> video, err |-> "none",
                               segments |-> processed.segments,
                               ignoreTTL |-> processed.ignoreTTL]
    /\ fetched' = IF resolved'.err = "none" THEN fetched \cup {video} ELSE fetched
    /\ UNCHANGED helper
    /\ UNCHANGED exceptResolve

ResolveInit ==
    /\ \E kind \in {"ApiHelper", "APIHelper"}, apiKey \in BOOLEAN,
          whitelist \in SUBSET Channels :
          helper = NewHelper(kind, apiKey, whitelist)
    /\ lookups = 0
    /\ queries = [v \in Videos |-> 0]
    /\ resolved = NoResult
    /\ fetched = {}
    /\ SessionIdle /\ MergeIdle /\ CommandIdle /\ ScheduleIdle /\ CacheIdle /\ SharedIdle
    /\ HandlerIdle

ResolveNext ==
    \E video \in Videos, answer \in ProviderAnswers :
        \E channel \in {ChannelOf[video], "fail"} :
            GetSegments(video, channel, answer)

SpecResolve == ResolveInit /\ [][ResolveNext]_vars

(***************************************************************************)
(* SpecMerge: processSegments on every bounded input                       *)
(***************************************************************************)

\* Raw records have start <= end (the Segment data model).
RawRecords ==
    { r \in { TypedSegment(st, en, 0, lk) :
                st \in Times, en \in Times, lk \in {0, 1} } :
        r.start <= r.end }

\* The decoded list gives record k the UUID k.
RawList(n, f) == [k \in 1 .. n |-> [f[k] EXCEPT !.uuid = k]]

\* The example of the specification: {0,10,a,unlocked} {8,20,b,locked}
\* {25,30,c,locked}, ids a, b, c written 1, 2, 3.
ExampleInput ==
    << TypedSegment(0,           10 * Second, 1, 0),
       TypedSegment(8 * Second,  20 * Second, 2, 1),
       TypedSegment(25 * Second, 30 * Second, 3, 1) >>

\* The result fed back in as raw records: same start and end, the first id
\* of each segment, the lock status of the result.
RECURSIVE AsRaw(_, _)
AsRaw(segs, lk) ==
    IF segs = << >> THEN << >>
    ELSE Append(AsRaw(SubSeq(segs, 1, Len(segs) - 1), lk),
                TypedSegment(segs[Len(segs)].start, segs[Len(segs)].end,
                             segs[Len(segs)].uuids[1], lk))

MergeInit ==
    /\ \/ data = [hasSegments |-> FALSE, segments |-> << >>]
       \/ data = [hasSegments |-> TRUE, segments |-> ExampleInput]
       \/ \E n \in 0 .. MaxLen : \E f \in [1 .. n -> RawRecords] :
              data = [hasSegments |-> TRUE, segments |-> RawList(n, f)]
    /\ mpc = "input"
    /\ segments = << >>
    /\ ignoreTTL = TRUE
    /\ again = << >>
    /\ SessionIdle
    /\ CommandIdle
    /\ ScheduleIdle
    /\ CacheIdle
    /\ SharedIdle
    /\ ResolveIdle
    /\ HandlerIdle

\* GetSegments hands the matching video's object to processSegments.
Process ==
    /\ mpc = "input"
    /\ LET r == ProcessSegments(data)
       IN  /\ segments' = r.segments
           /\ ignoreTTL' = r.ignoreTTL
    /\ mpc' = "merged"
    /\ UNCHANGED <<data, again>>
    /\ UNCHANGED exceptMerge

\* processSegments applied to its own result.
Reprocess ==
    /\ mpc = "merged"
    /\ again' = ProcessSegments([hasSegments |-> TRUE,
                                 segments |-> AsRaw(segments, IF ignoreTTL THEN 1 ELSE 0)]).segments
    /\ mpc' = "remerged"
    /\ UNCHANGED <<data, segments, ignoreTTL>>
    /\ UNCHANGED exceptMerge

MergeNext == Process \/ Reprocess

SpecMerge == MergeInit /\ [][MergeNext]_vars

(***************************************************************************)
(* Properties of processSegments (SpecMerge)                               *)
(***************************************************************************)

Merged == mpc \in {"merged", "remerged"}

\* The ids of a segment list, in list order.
RECURSIVE AllUUIDs(_)
AllUUIDs(segs) ==
    IF segs = << >> THEN << >>
    ELSE AllUUIDs(SubSeq(segs, 1, Len(segs) - 1)) \o segs[Len(segs)].uuids

Intervals(segs) == [k \in 1 .. Len(segs) |-> <<segs[k].start, segs[k].end>>]

\* C1: for every list of raw records with start <= end, in any order, the
\* returned list is sorted ascending by start, no two returned segments
\* overlap, and each segment starts at least one second after the previous
\* one ends.
C1_SortedDisjointGapped ==
    Merged =>
        /\ \A i, j \in 1 .. Len(segments) :
              i < j => /\ segments[i].start <= segments[j].start
                       /\ segments[i].end < segments[j].start
        /\ \A k \in 1 .. Len(segments) - 1 :
              segments[k + 1].start - segments[k].end >= Second

\* C1 witness: three raw records, some of them merged, two segments returned.
C1_Witness ==
    /\ mpc = "merged"
    /\ Len(data.segments) = 3
    /\ Len(segments) = 2
    /\ \E i, j \in 1 .. 3 :
          /\ i # j
          /\ data.segments[i].start < data.segments[j].start
          /\ data.segments[j].start < data.segments[i].end

\* C2: with distinct input ids, every input id is in exactly one returned
\* segment, exactly once.
C2_IdsPreserved ==
    (Merged /\ data.hasSegments) =>
        LET ids == AllUUIDs(segments)
        IN  /\ Len(ids) = Len(data.segments)
            /\ \A k \in 1 .. Len(data.segments) :
                  Cardinality({ n \in 1 .. Len(ids) : ids[n] = data.segments[k].uuid }) = 1

\* C2 witness: a merge that put two ids in one segment and left another alone.
C2_Witness ==
    /\ mpc = "merged"
    /\ Len(data.segments) = 3
    /\ Len(segments) = 2
    /\ \E k \in 1 .. 2 : Len(segments[k].uuids) = 2

\* C3: the flag returned is true exactly when every raw record is locked,
\* and a missing or empty list gives an empty result with the flag true.
C3_PermanentIffAllLocked ==
    Merged =>
        /\ ignoreTTL = (\A k \in 1 .. Len(data.segments) : data.segments[k].locked = 1)
        /\ (~data.hasSegments \/ data.segments = << >>) =>
              (segments = << >> /\ ignoreTTL)

\* C3 witness: one unlocked record among locked ones makes the flag false.
C3_Witness ==
    /\ mpc = "merged"
    /\ Len(data.segments) = 3
    /\ Cardinality({ k \in 1 .. 3 : data.segments[k].locked = 0 }) = 1
    /\ data.segments[3].locked = 1
    /\ ~ignoreTTL

\* C4: feeding the returned segments back in as raw records returns the
\* same list of intervals.
C4_Idempotent ==
    mpc = "remerged" => Intervals(again) = Intervals(segments)

\* C4 witness: a result of two segments, one of them made by a merge, fed
\* back in.
C4_Witness ==
    /\ mpc = "remerged"
    /\ Len(data.segments) = 3
    /\ Len(segments) = 2
    /\ Len(again) = 2

\* C5: the example input returns exactly [0,20] with ids a and b and
\* [25,30] with id c, and the result is not permanent.
C5_Example ==
    (Merged /\ data.hasSegments /\ data.segments = ExampleInput) =>
        /\ Len(segments) = 2
        /\ segments[1].start = 0
        /\ segments[1].end = 20 * Second
        /\ Len(segments[1].uuids) = 2
        /\ { segments[1].uuids[n] : n \in 1 .. 2 } = {1, 2}
        /\ segments[2] = [start |-> 25 * Second, end |-> 30 * Second, uuids |-> << 3 >>]
        /\ ignoreTTL = FALSE

\* C5 witness: the example input has been processed.
C5_Witness ==
    mpc = "merged" /\ data.hasSegments /\ data.segments = ExampleInput

(***************************************************************************)
(* Properties of the skip side (SpecSkip)                                  *)
(***************************************************************************)

\* C6: skip scheduling is single-flight per device: at most one scheduled
\* skip is pending (sleeping, able to fire), and it is the one of the latest
\* HandlePlaybackStateChange call.
C6_SingleFlight ==
    /\ Cardinality({ k \in SkipCalls : sk[k].pc = "sleep" }) <= 1
    /\ \A k \in SkipCalls : sk[k].pc = "sleep" => k = task

\* C7: when a scheduled skip has fired, a seek-to command with the chosen
\* segment's end as target has been sent to the device (and the report to
\* mark-viewed comes only after it).
C7_SeekBeforeReport ==
    \A k \in SkipCalls :
        (sk[k].pc \in {"mark", "done"} /\ sk[k].uuids # << >>) =>
            \E c \in 1 .. Len(commands) :
                commands[c] = [command |-> "seekTo", newTime |-> sk[k].position]

(***************************************************************************)
(* Properties of the subscription side (SpecSession)                       *)
(***************************************************************************)

\* C8: every fresh subscribe attempt answers one termination of the
\* subscription: a watchdog expiry that tore it down (exactly one attempt
\* for that expiry) or the end of its stream.
C8_OneAttemptPerExpiry ==
    subs >= 1 =>
        subs - 1 <= Cardinality({ g \in Calls : subCtx[g] = "watchdog" })
                    + Cardinality({ g \in Calls : stream[g].pc = "failed" })

\* C9: after ProcessEvent has handled an event while the subscription is
\* active, a watchdog is running for it with a full window from that event.
C9_EventRestartsWatchdog ==
    [][\A g \in Calls :
          ( /\ stream[g].pc = "handling"
            /\ stream'[g].pc = "waiting"
            /\ subscribeTask' # 0
            /\ subCtx'[subscribeTask'] = "live" )
          => \E h \in Calls : /\ wd'[h].pc = "select"
                              /\ watchCtx'[h] = "live"
                              /\ wd'[h].due = Window]_vars

\* C10: handling a loungeStatus event that lists a blacklisted client always
\* terminates the current subscription, whatever state the session is in.
C10_BlacklistTerminates ==
    [][\A g \in Calls :
          ( /\ stream[g].pc = "handling"
            /\ stream[g].ev = "loungeStatusBlacklisted"
            /\ stream'[g].pc = "waiting" )
          => /\ ~panicked'
             /\ \A h \in Calls : subCtx'[h] # "live"]_vars

\* C11: a new subscribe attempt is made only after the previous subscription
\* stream has terminated (error, end of stream, or watchdog teardown); a
\* subscription that is still active is not torn down and replaced.
C11_ResubscribeOnlyAfterTermination ==
    [][(subs >= 1 /\ subs' = subs + 1) =>
          \/ stream[subs].pc \in {"ended", "failed"}
          \/ subCtx[subs] # "live"]_vars

(***************************************************************************)
(* Properties of cancellation and shutdown (SpecShutdown)                  *)
(***************************************************************************)

\* C12: after the session's top-level cancellation (cancel() and
\* DeviceListener.Cancel) a skip that was pending and had not fired never
\* fires.
C12_CancelStopsPendingSkip ==
    [][\A k \in SkipCalls :
          (cancelled /\ sk[k].pc = "sleep") => sk'[k].pc = "sleep"]_vars

\* C13: the process exits only after the tasks the session spawned,
\* skip tasks included, have finished.
C13_ExitAfterTasksFinished ==
    mainPc = "exited" =>
        \A k \in SkipCalls : sk[k].pc \notin {"fetch", "sleep", "mark"}

(***************************************************************************)
(* Properties of the remote commands (SpecCommands)                        *)
(***************************************************************************)

\* The "muted" value of the last command posted that carries one, "nil"
\* when there is none.
RECURSIVE LastMuted(_)
LastMuted(cmds) ==
    IF cmds = << >> THEN "nil"
    ELSE IF cmds[Len(cmds)].muted # "none" THEN cmds[Len(cmds)].muted
    ELSE LastMuted(SubSeq(cmds, 1, Len(cmds) - 1))

\* C14: at most one command is being sent at a time, and whenever no call
\* holds the command mutex the local muted shadow equals the muted value of
\* the command sent last.
C14_CommandsSerialized ==
    /\ Cardinality({ c \in CmdCalls : cmd[c].pc = "sending" }) <= 1
    /\ commandMutex = 0 => muted = LastMuted(commands)

\* C14 witness: of a mute and an unmute called concurrently with a third
\* command, one has sent its command, the other is sending, and the third
\* call is blocked on the mutex.
C14_Witness ==
    /\ cmd[1].kind = "mute" /\ cmd[2].kind = "mute"
    /\ cmd[1].mute # cmd[2].mute
    /\ cmd[1].pc = "done"
    /\ cmd[2].pc = "sending"
    /\ cmd[3].pc = "lock"
    /\ Len(commands) = 1

(***************************************************************************)
(* Properties of event handling (SpecEvents)                               *)
(***************************************************************************)

\* C15: handling an event with a malformed or missing payload never panics
\* and leaves the subscribe goroutine ready for the next event.
C15_MalformedEventIgnored ==
    [][\A g \in Calls :
          (stream[g].pc = "handling" /\ stream[g].ev \in MalformedEvents
              /\ stream'[g] # stream[g]) =>
          (~panicked' /\ stream'[g].pc = "waiting")]_vars

(***************************************************************************)
(* Properties of start-up (SpecStartup)                                    *)
(***************************************************************************)

\* C16: a failure to reach the remote device never makes the process exit.
C16_TransportFailureNotFatal == mainPc # "fatal"

(***************************************************************************)
(* Properties of timeToSegment (SpecSchedule)                              *)
(***************************************************************************)

Scheduled == sched.pc \in {"sleep", "fired"}

\* The index of the segment the scheduled skip is for.
Chosen == CHOOSE k \in 1 .. Len(sched.segs) : sched.segs[k].uuids = sched.uuids

\* The already-active case: the position is in the first second and segment
\* k holds it and reaches beyond the first second.
AlreadyActive(k) ==
    /\ sched.position < Second
    /\ sched.segs[k].start <= sched.position
    /\ sched.position < sched.segs[k].end
    /\ sched.segs[k].end > Second

\* C17: the delay is (targetStart - samplePosition) - elapsedSinceSample -
\* device.offset, where targetStart is the sample position for a segment
\* already active and the segment's start otherwise; a delay that is
\* negative or zero leaves nothing to sleep; for segments [{5,8}], position
\* 0 and offset 0 the delay is 5 seconds minus the elapsed time.
C17_DelayFormula ==
    Scheduled =>
        LET targetStart == IF sched.segs[Chosen].start > sched.position
                           THEN sched.segs[Chosen].start
                           ELSE sched.position
        IN  /\ sched.timeTo = (targetStart - sched.position) - sched.elapsed - sched.offset
            /\ sched.timeTo <= 0 => sched.sleep = 0
            /\ sched.sleep <= Max(sched.timeTo, 0)
            /\ (sched.segs = << SchedSegment(5 * Second, 8 * Second, 1) >>
                    /\ sched.position = 0 /\ sched.offset = 0) =>
                  sched.timeTo = 5 * Second - sched.elapsed

\* C17 witness: the example, some time after the sample was taken.
C17_Witness ==
    /\ sched.pc = "sleep"
    /\ sched.segs = << SchedSegment(5 * Second, 8 * Second, 1) >>
    /\ sched.position = 0
    /\ sched.offset = 0
    /\ sched.elapsed = 1
    /\ sched.sleep = 5 * Second - 1

\* C18: with the position in the first second and a segment that holds it
\* and reaches beyond the first second, that segment is scheduled, with the
\* position as target start (the delay before the offset is at most zero)
\* and the segment's end as seek target.
C18_AlreadyActive ==
    \A k \in 1 .. Len(sched.segs) :
        (sched.pc \in {"sleep", "fired", "idle"} /\ AlreadyActive(k)) =>
            /\ Scheduled
            /\ sched.uuids = sched.segs[k].uuids
            /\ sched.target = sched.segs[k].end
            /\ sched.timeTo = 0 - sched.elapsed - sched.offset
            /\ sched.timeTo + sched.offset <= 0

\* C18 witness: position 0.5 inside the segment {0,8}.
C18_Witness ==
    /\ sched.pc = "fired"
    /\ sched.position = 1
    /\ sched.segs[1] = SchedSegment(0, 8 * Second, 1)
    /\ sched.target = 8 * Second

\* C19: when no segment is already active, the first segment in start order
\* whose start is strictly greater than the position is scheduled, from its
\* start to its end; when there is none, no skip is scheduled and no command
\* is issued.
C19_FirstStrictlyAfter ==
    (sched.pc \in {"sleep", "fired", "idle"}
        /\ \A k \in 1 .. Len(sched.segs) : ~AlreadyActive(k)) =>
        LET after == { k \in 1 .. Len(sched.segs) : sched.segs[k].start > sched.position }
        IN  IF after = {}
            THEN sched.pc = "idle" /\ commands = << >>
            ELSE /\ Scheduled
                 /\ \A j \in after : Chosen <= j
                 /\ Chosen \in after
                 /\ sched.target = sched.segs[Chosen].end
                 /\ sched.timeTo = (sched.segs[Chosen].start - sched.position)
                                   - sched.elapsed - sched.offset

\* C19 witness: the first segment starts exactly at the position and is
\* passed over for the second one.
C19_Witness ==
    /\ sched.pc = "sleep"
    /\ Len(sched.segs) = 2
    /\ sched.segs[1].start = sched.position
    /\ sched.position >= Second
    /\ sched.uuids = << 2 >>

\* A Set of the key is in force: a value was stored, no Delete, Clear or
\* capacity eviction of the key came since, and the TTL has not elapsed.
InForce(key) ==
    /\ stored[key].live
    /\ stored[key].hasExpiration => clock < stored[key].expiration

\* C20: a Get of a key whose Set is in force returns found with exactly the
\* value stored.
C20_RoundTrip ==
    [][\A key \in Keys :
          (got'.key = key /\ InForce(key)) =>
              (got'.found /\ got'.value = stored[key].value)]_vars

\* The TTL of the key's last Set has elapsed, and nothing removed the entry.
Elapsed(key) ==
    /\ stored[key].live
    /\ stored[key].hasExpiration
    /\ clock > stored[key].expiration

\* C21: a Get of a key whose TTL has elapsed returns not found and leaves the
\* key neither in the map nor in the recency list.
C21_ExpiredRemoved ==
    [][\A key \in Keys :
          (got'.key = key /\ got.key = "none" /\ Elapsed(key)) =>
              /\ ~got'.found
              /\ items'[key] = 0
              /\ \A i \in 1 .. Len(lruList') : owner'[lruList'[i]] # key]_vars

\* C22: a Set of a new key into a full cache evicts exactly one entry, the
\* one at the back of the recency order: that key is unmapped, the new key
\* is mapped, and every other key that was mapped stays mapped.
C22_EvictsLeastRecent ==
    [][\A key \in Keys, value \in Values, ignore \in BOOLEAN :
          (/\ CacheSet(key, value, ignore)
           /\ items[key] = 0
           /\ Len(lruList) = Capacity
           /\ ~cachePanicked') =>
              LET victim == owner[lruList[Len(lruList)]]
              IN  /\ items'[victim] = 0
                  /\ items'[key] # 0
                  /\ \A k \in Keys \ {victim} : items[k] # 0 => items'[k] # 0]_vars

\* The key's last Set was permanent (ignoreTTL), and nothing removed the entry.
Permanent(key) == stored[key].live /\ ~stored[key].hasExpiration

\* C23: a Get of a key stored permanently, and not deleted, cleared or
\* evicted since, returns found with the value stored, whatever the time.
C23_PermanentNeverExpires ==
    [][\A key \in Keys :
          (got'.key = key /\ got.key = "none" /\ Permanent(key)) =>
              (got'.found /\ got'.value = stored[key].value)]_vars

\* C24: no call changes the cache's map, list or entries while another
\* caller holds the cache's lock.
C24_NoWriteWhileOthersHold ==
    [][(<<items, lruList, entry>>' # <<items, lruList, entry>>) =>
          \A q \in Callers : (call'[q] = call[q]) => q \notin mu]_vars

\* C25: once GetSegments has returned a result for a video, a later
\* GetSegments of the same video makes no request to the segment provider.
C25_ServedFromCache ==
    [][\A video \in Videos, answer \in ProviderAnswers :
          \A channel \in {ChannelOf[video], "fail"} :
              (GetSegments(video, channel, answer) /\ video \in fetched) =>
                  queries' = queries]_vars

\* The configuration names an API key and a whitelist holding the video's channel.
WhitelistedByConfig(video) == helper.apiKey /\ ChannelOf[video] \in helper.whitelist

\* C26: with a key and a whitelist configured, GetSegments of a video of a
\* whitelisted channel returns the empty list, permanent, and makes no
\* request to the segment provider; with no whitelist configured it makes no
\* channel lookup.
C26_WhitelistShortCircuit ==
    [][\A video \in Videos, answer \in ProviderAnswers :
          /\ (GetSegments(video, ChannelOf[video], answer) /\ WhitelistedByConfig(video)) =>
                 /\ resolved' = [video |-> video, err |-> "none",
                                 segments |-> << >>, ignoreTTL |-> TRUE]
                 /\ queries' = queries
          /\ \A channel \in {ChannelOf[video], "fail"} :
                 (GetSegments(video, channel, answer) /\ helper.whitelist = {}) =>
                     lookups' = lookups]_vars

\* C27: when GetSegments fails for a playback state change, that call ends
\* without a skip (no sleep, no ids to mark), no command is sent, the process
\* goes on, and the subscription, the other calls and the current task are
\* left as they were; a call that failed never schedules anything later.
C27_FailureOnlyThatVideo ==
    [][\A k \in SkipCalls :
          /\ (sk[k].pc = "fetch" /\ sk'[k].failed) =>
                 /\ sk'[k].pc = "done"
                 /\ sk'[k].uuids = << >>
                 /\ commands' = commands
                 /\ viewed' = viewed
                 /\ ~panicked' /\ mainPc' = mainPc
                 /\ <<loop, subs, stream, subCtx, task, taskCtx>>'
                        = <<loop, subs, stream, subCtx, task, taskCtx>>
                 /\ \A j \in SkipCalls \ {k} : sk'[j] = sk[j]
          /\ sk[k].failed => sk'[k] = sk[k]]_vars

\* The first call failed, and the next playback state change has scheduled
\* its skip.
C27_Witness ==
    /\ sk[1].failed /\ sk[1].pc = "done"
    /\ sk[2].pc = "sleep" /\ ~sk[2].failed

\* C28: once the session's context has been cancelled (main's cancel()), Loop
\* starts no further subscribe attempt, under every interleaving of cancel()
\* and DeviceListener.Cancel() with the Loop goroutine.  (That Loop then
\* returns is the other half of the claim: from every such state its select
\* has the ctx.Done() case ready, or its loop test reads d.cancelled.)
C28_NoSubscribeAfterCancel ==
    [][ctxDone => subs' = subs]_vars

\* Two raw records overlap: their ranges share a point (the test of the
\* extension passes counts a record that starts where another ends).
Overlap(a, b) == a.start <= b.end /\ b.start <= a.end

\* The indices of the raw records connected to those in S through a chain of
\* pairwise overlaps.
RECURSIVE Chain(_, _)
Chain(t, S) ==
    LET T == S \cup { j \in 1 .. Len(t) : \E i \in S : Overlap(t[i], t[j]) }
    IN  IF T = S THEN S ELSE Chain(t, T)

MinStart(t, S) == CHOOSE x \in { t[i].start : i \in S } : \A i \in S : x <= t[i].start
MaxEnd(t, S) == CHOOSE x \in { t[i].end : i \in S } : \A i \in S : t[i].end <= x

Extended(d) == ExtendStarts(SortSlice(ExtendEnds(SortSlice(d.segments, "end")), "start"))

\* C30: whenever the combine loop joins a segment to the previous one (the
\* gap between the previous end and the current start is under one second),
\* the combined segment starts at the earlier start, ends at the later
\* (maximum) end, and lists the earlier segment's ids followed by the later
\* segment's id.
C30_CombinedSegment ==
    (Merged /\ data.hasSegments) =>
        LET t == Extended(data)
        IN  \A k \in 2 .. Len(t) :
                LET segs == CombineClose(SubSeq(t, 1, k - 1), 1, << >>)
                    last == segs[Len(segs)]
                    out  == CombineStep(segs, t[k])
                IN  t[k].start - last.end < Second =>
                        /\ Len(out) = Len(segs)
                        /\ out[Len(out)].start = last.start
                        /\ out[Len(out)].end = Max(last.end, t[k].end)
                        /\ out[Len(out)].uuids = Append(last.uuids, t[k].uuid)

\* C36: only the first segment in start order is ever taken as already
\* active: a skip scheduled with the sample position as its target start is
\* a skip of segment 1, and a later segment that holds the sample position
\* is not scheduled.
C36_OnlyFirstAlreadyActive ==
    sched.pc \in {"sleep", "fired", "idle"} =>
        /\ (Scheduled /\ sched.timeTo = 0 - sched.elapsed - sched.offset) => Chosen = 1
        /\ \A k \in 2 .. Len(sched.segs) :
              (sched.segs[k].start <= sched.position /\ sched.position < sched.segs[k].end) =>
                  ~(Scheduled /\ sched.uuids = sched.segs[k].uuids)

\* C36 witness: the first segment does not span the opening window, the
\* sample position lies inside the second segment, and no skip is scheduled.
C36_Witness ==
    /\ sched.pc = "idle"
    /\ Len(sched.segs) = 2
    /\ ~AlreadyActive(1)
    /\ sched.segs[2].start <= sched.position
    /\ sched.position < sched.segs[2].end

\* C37: the cache's map and its recency list describe the same entries:
\* every mapped key maps to an element that is in the list, every element of
\* the list is the element of exactly one mapped key, and the two have the
\* same size.
C37_MapMatchesList ==
    /\ \A key \in Keys : items[key] # 0 => InList(lruList, items[key])
    /\ \A i \in 1 .. Len(lruList) :
          Cardinality({ key \in Keys : items[key] = lruList[i] }) = 1
    /\ Cardinality({ key \in Keys : items[key] # 0 }) = Len(lruList)

\* C38: at most one subscription context and at most one watchdog context
\* started by SubscribeMonitored are live at any time.
C38_OneLiveSubscription ==
    /\ Cardinality({ g \in Calls : subCtx[g] = "live" }) <= 1
    /\ Cardinality({ g \in Calls : watchCtx[g] = "live" }) <= 1

\* C39: the subscription cancel handle is not nil when it is invoked: neither
\* when ProcessEvent handles a loungeStatus event with a blacklisted client,
\* nor when the watchdog calls it after a tick.
C39_HandleNotNilWhenInvoked ==
    [][\A g \in Calls :
          /\ ( /\ stream[g].pc = "handling"
               /\ stream[g].ev = "loungeStatusBlacklisted"
               /\ (stream'[g] # stream[g] \/ panicked') ) => subscribeTask # 0
          /\ (wd[g].pc = "call" /\ (wd'[g] # wd[g] \/ panicked')) => subscribeTask # 0]_vars

(***************************************************************************)
(* Properties of the event handlers (SpecHandlers, SpecShorts)             *)
(***************************************************************************)

\* A handler finishes the event ev held by the stream of call g in this step.
Handles(g, ev) ==
    /\ stream[g].pc = "handling"
    /\ stream[g].ev = ev
    /\ stream'[g].pc = "waiting"

\* The command of call c has reached the device.
Sent(c) == cmd[c].pc \in {"unlock", "done"}

\* C31: with the skip policy enabled, an ad-state event for a running ad
\* that can be skipped starts a skip-ad command and then an unmute command,
\* and the skip-ad command reaches the device before the unmute command.
C31_SkipBeforeUnmute ==
    [][/\ \A g \in Calls :
             (Handles(g, "onAdStateChangeSkippable") /\ skipAds) =>
                 cmd' = Go(cmd, << CommandCall("skipAd"), MuteCall(FALSE) >>)
       /\ \A c \in 1 .. MaxCmds - 1 :
             ( /\ cmd[c].kind = "skipAd"
               /\ cmd[c + 1].pc = "sending"
               /\ cmd'[c + 1].pc = "unlock" ) => Sent(c)]_vars

\* C32: with the mute policy enabled, an ad-state event for a running ad
\* that cannot be skipped starts a mute command, whether or not the skip
\* policy is enabled, whichever handler classifies the event.
C32_UnskippableAdMuted ==
    [][\A g \in Calls :
          (Handles(g, "onAdStateChangeUnskippable") /\ muteAds) =>
              cmd' = Go(cmd, << MuteCall(TRUE) >>)]_vars

\* C33: with the mute policy enabled, a playback-state event reporting
\* "playing" starts an unmute command and no mute command, whichever handler
\* classifies the event.
C33_PlayingUnmutes ==
    [][\A g \in Calls :
          (Handles(g, "onStateChangePlaying") /\ muteAds) =>
              cmd' = Go(cmd, << MuteCall(FALSE) >>)]_vars

\* C34: the shorts-disconnected flag is set only by a screen-disconnected
\* event whose reason is user-initiated; a subtitle-track event while the
\* flag is set clears it and starts exactly one play command, and while the
\* flag is clear it starts no command and leaves the flag clear.
C34_ShortsFlag ==
    [][/\ (shortsDisconnected' /\ ~shortsDisconnected) =>
             \E g \in Calls : Handles(g, "loungeScreenDisconnectedByUser")
       /\ \A g \in Calls :
             Handles(g, "onSubtitlesTrackChanged") =>
                 /\ ~shortsDisconnected'
                 /\ cmd' = IF shortsDisconnected
                           THEN Go(cmd, << CommandCall("setPlaylist") >>)
                           ELSE cmd]_vars

\* C35: when ProcessEvent, the handler the subscription hands inbound events
\* to, handles a nowPlaying event with a video id, a GetSegments call for
\* that id is started.
C35_NowPlayingPrefetches ==
    [][\A g \in Calls :
          (ProcessEvent(g) /\ stream[g].ev \in {"nowPlaying", "nowPlayingPlaying"}) =>
              "v1" \in prefetched']_vars

\* C40: while a Mute call holds the command mutex, the muted shadow is
\* changed by that call only.
C40_ShadowUnderMutex ==
    [][\A c \in CmdCalls :
          (commandMutex = c /\ cmd[c].kind = "mute" /\ muted' # muted) =>
              cmd'[c] # cmd[c]]_vars

============================================================================
